---- MODULE Spec2Model ----
(***************************************************************************)
(* Timeline synchronization engine of the Goethe video generator:          *)
(*   - the timeline builder   scripts/generate_audio.py                    *)
(*     (ConfigurableAudioGenerator),                                       *)
(*   - the audio assembler and final mux   scripts/sync_audio_video.py     *)
(*     (TimingRespectingAudioVideoSynchronizer).                           *)
(*                                                                         *)
(* All times are whole milliseconds: pydub measures clips in whole         *)
(* milliseconds (len(segment)) and the code divides by 1000.0, so a        *)
(* duration of 2.5 s is the integer 2500 here.  Binary floating-point      *)
(* rounding of the seconds values is outside this model.                   *)
(*                                                                         *)
(* Python dicts are TLA+ records (functions on strings); a key that may be *)
(* absent is a field that may be absent, tested with DOMAIN.               *)
(***************************************************************************)
EXTENDS Integers, Sequences, FiniteSets, TLC

VARIABLES
    pc,                 \* position of generate_all_audio: idle, running, done, failed
    runs,               \* calls of generate_all_audio made on this generator instance
    input,              \* the sections of the production JSON read so far, with the clip TTS gave for each
    pos,                \* sections processed by the current run (loop index of line 520)
    timing_config,      \* self.timing_config
    audio_config,       \* self.audio_config
    audio_sequence,     \* self.audio_sequence
    total_duration,     \* self.total_duration
    voice_assignments,  \* self.voice_assignments: speaker -> <<voice, engine, gender>>
    disk,               \* output/audio/<base>/: file name -> clip length
    artifact,           \* audio_sequence.json as last written, <<>> when none
    returned,           \* the sequence_info values returned by the finished runs, in order
    tts_calls,          \* generate_speech calls the current run has made
    gen_error,          \* the exception that ended the current run: none, KeyError, other
    sync_pc,            \* position of sync_audio_video: idle, assembling, assembled, done
    asm_i,              \* steps of the sequence the assembler has processed (loop of line 64)
    master_audio,       \* the master track: the segments appended so far, in order
    current_position,   \* the assembler's position cursor
    asm_log,            \* per processed step: track length when its content begins, clip loaded or not
    actual_duration,    \* the duration create_master_audio_using_sequence_timing returned
    encode_call,        \* the arguments of the ffmpeg call, <<>> when none was made
    sync_result,        \* what sync_audio_video returned: none, output_path, None
    speech_pc,          \* one generate_speech call: idle, running, returned, raised
    speech_request,     \* the voice_name and engine it was called with
    speech_stack,       \* its frames, outermost first: voice_name, engine, line reached
    polly_calls,        \* the synthesize_speech calls made so far, with their outcome
    speech_result,      \* the audio generate_speech returned, <<>> when none
    drv_pc,             \* position of the playback driver in record_calibrated_video
    drv_i,              \* steps execute_calibrated_sequence has finished (loop of line 404)
    clock,              \* get_current_time(): time since self.start_time
    browser_lag_baseline,   \* self.browser_lag_baseline
    cumulative_drift,   \* self.cumulative_drift
    timing_measurements,    \* self.timing_measurements
    renderer_log,       \* the page.evaluate calls of the session: call, return, error
    drv_failed,         \* an exception left execute_calibrated_sequence
    drv_result,         \* what record_calibrated_video returned: none, output_path, None
    recording,          \* the recorded video at output_path and what the validation found
    temp_files,         \* self.temp_files: the temporary files that are there
    pipe_kind,          \* the pipeline that runs: none, complete, synchronized
    pipe_input,         \* the stem of user_json_path, as the sequence of its parts
    pipe_pc,            \* the stage the pipeline is at: idle, convert, ..., report, returned
    pipe_log,           \* the stages run so far, in order, with what each reported
    pipe_result,        \* what the pipeline's run method returned: none, True, False
    conv_pc,            \* position of a converter run: idle, loaded, done
    conv_version,       \* the converter that runs: convert_content, convert_content_old
    user_data,          \* the user JSON it loaded, <<>> when none
    conv_status,        \* how the run ended: none, written, exit1, error
    production_file     \* the production JSON it wrote, <<>> when none

genVars == <<pc, runs, input, pos, timing_config, audio_config, audio_sequence,
             total_duration, voice_assignments, disk, artifact, returned,
             tts_calls, gen_error>>

syncVars == <<sync_pc, asm_i, master_audio, current_position, asm_log,
              actual_duration, encode_call, sync_result>>

speechVars == <<speech_pc, speech_request, speech_stack, polly_calls, speech_result>>

playVars == <<drv_pc, drv_i, clock, browser_lag_baseline, cumulative_drift,
              timing_measurements, renderer_log, drv_failed, drv_result, recording,
              temp_files>>

pipeVars == <<pipe_kind, pipe_input, pipe_pc, pipe_log, pipe_result>>

convVars == <<conv_pc, conv_version, user_data, conv_status, production_file>>

(* What the generator leaves alone *)
notGenVars == <<syncVars, speechVars, playVars, pipeVars, convVars>>

(* What sync_audio_video leaves alone *)
notSyncVars == <<genVars, speechVars, playVars, pipeVars, convVars>>

(* What a generate_speech call leaves alone *)
notSpeechVars == <<genVars, syncVars, playVars, pipeVars, convVars>>

(* What the playback driver leaves alone *)
notPlayVars == <<genVars, syncVars, speechVars, pipeVars, convVars>>

(* What a pipeline leaves alone: the scripts it runs are processes of      *)
(* their own                                                               *)
notPipeVars == <<genVars, syncVars, speechVars, playVars, convVars>>

(* What a converter run leaves alone *)
notConvVars == <<genVars, syncVars, speechVars, playVars, pipeVars>>

vars == <<genVars, syncVars, speechVars, playVars, pipeVars, convVars>>

-----------------------------------------------------------------------------
(* Bounds of the model *)

MaxSections == 3
MaxPlayCount == 3
MaxRuns == 2
MaxRerunSections == 2

(* One clip shorter and one longer than the minimum transition duration. *)
ClipLens == {1000, 4000}

-----------------------------------------------------------------------------
(* Timing configuration: generate_audio.py lines 83-113 *)

DefaultThinkingTime == 5000
DefaultPauseBetween == 3000
DefaultTransitionDuration == 2500
DefaultAnswerRevealPause == 2000
DefaultInstructionsBuffer == 2000
DefaultTaskStartBuffer == 2000
DefaultTextPlayCount == 2
ProbeFallbackDuration == 3000

Get(d, key, default) == IF key \in DOMAIN d THEN d[key] ELSE default

get_thinking_time(tc) == Get(tc, "thinking_time", DefaultThinkingTime)
get_pause_between(tc) == Get(tc, "pause_between_plays", DefaultPauseBetween)
get_transition_duration(tc) == Get(tc, "transition_duration", DefaultTransitionDuration)
get_answer_reveal_pause(tc) == Get(tc, "answer_reveal_pause", DefaultAnswerRevealPause)
get_instructions_buffer(tc) == Get(tc, "instructions_buffer", DefaultInstructionsBuffer)
get_task_start_buffer(tc) == Get(tc, "task_start_buffer", DefaultTaskStartBuffer)
get_text_play_count(ac) == Get(ac, "text_play_count", DefaultTextPlayCount)

EmptyDict == [k \in {} |-> 0]

(* The 'timing' section a Teil configuration can carry: none of the keys   *)
(* (every getter falls back to its default), or the all-zero profile with  *)
(* a thinking time only.                                                   *)
TimingConfigs ==
    { EmptyDict,
      [thinking_time |-> 5000, pause_between_plays |-> 0, transition_duration |-> 0,
       answer_reveal_pause |-> 0, instructions_buffer |-> 0, task_start_buffer |-> 0] }

AudioConfigs == { EmptyDict } \cup { [text_play_count |-> n] : n \in 1..MaxPlayCount }

Abs(x) == IF x < 0 THEN -x ELSE x

Min(a, b) == IF a <= b THEN a ELSE b

Max(a, b) == IF a >= b THEN a ELSE b

-----------------------------------------------------------------------------
(* Voice selection: generate_audio.py lines 164-269 *)

gender_voice_pools ==
    [female |-> <<"Vicki", "Marlene">>, male |-> <<"Daniel", "Hans">>]

gender_engine_preferences ==
    [female |-> <<"generative", "standard">>, male |-> <<"generative", "standard">>]

(* str.lower() on the strings of the model *)
Lower(s) ==
    CASE s = "Female" -> "female"
      [] s = "Male" -> "male"
      [] s = "Marlene" -> "marlene"
      [] s = "Vicki" -> "vicki"
      [] s = "Hans" -> "hans"
      [] s = "Daniel" -> "daniel"
      [] OTHER -> s

female_indicators ==
    {"baeckerei", "bibliothek", "friseurin", "kundin", "moderatorin",
     "verkaeuferin", "mitarbeiterin", "lehrerin", "aerztin"}

male_indicators ==
    {"trainer", "optiker", "verkaeufer", "kunde", "moderator",
     "mitarbeiter", "lehrer", "arzt", "mechaniker"}

(* The indicator words and role patterns that occur as substrings of the   *)
(* lower-cased text (indicator in all_text), for the texts of the model.   *)
Words(text) ==
    CASE text = "Kundin" -> {"kundin", "in"}
      [] text = "Trainer" -> {"trainer", "in"}
      [] text = "Verkaeuferin" -> {"verkaeuferin", "verkaeufer", "in"}
      [] text = "Herr Meier" -> {"herr"}
      [] text = "Frau Schmidt" -> {"frau"}
      [] OTHER -> {}

(* Mutant of detect_speaker_gender: the voice name is looked at before the *)
(* gender field                                                            *)
detect_speaker_gender_voice_first(speaker_info, speaker_name, context) ==
    LET voice_name == Lower(Get(speaker_info, "voice_name", ""))
        role == Get(speaker_info, "role", "")
        all_text == Words(speaker_name) \cup Words(role) \cup Words(context)
    IN  IF voice_name \in {"marlene", "vicki"} THEN "female"
        ELSE IF voice_name \in {"hans", "daniel"} THEN "male"
        ELSE IF "gender" \in DOMAIN speaker_info THEN Lower(speaker_info.gender)
        ELSE IF female_indicators \cap all_text # {} THEN "female"
        ELSE IF male_indicators \cap all_text # {} THEN "male"
        ELSE IF {"in", "frau"} \cap Words(role) # {} THEN "female"
        ELSE IF {"herr", "mann"} \cap Words(role) # {} THEN "male"
        ELSE "female"

detect_speaker_gender(speaker_info, speaker_name, context) ==
    IF "gender" \in DOMAIN speaker_info THEN Lower(speaker_info.gender)
    ELSE LET voice_name == Lower(Get(speaker_info, "voice_name", ""))
             role == Get(speaker_info, "role", "")
             all_text == Words(speaker_name) \cup Words(role) \cup Words(context)
         IN  IF voice_name \in {"marlene", "vicki"} THEN "female"
             ELSE IF voice_name \in {"hans", "daniel"} THEN "male"
             ELSE IF female_indicators \cap all_text # {} THEN "female"
             ELSE IF male_indicators \cap all_text # {} THEN "male"
             ELSE IF {"in", "frau"} \cap Words(role) # {} THEN "female"
             ELSE IF {"herr", "mann"} \cap Words(role) # {} THEN "male"
             ELSE "female"

(* Index (1-based) of the first pool voice that is not in used, 0 if none *)
FirstUnused(available_voices, used) ==
    LET free == {i \in 1..Len(available_voices) : available_voices[i] \notin used}
    IN  IF free = {} THEN 0 ELSE CHOOSE i \in free : \A j \in free : i <= j

(* Mutant of assign_voice_for_speaker: the cycle starts one voice further  *)
assign_voice_shifted(va, speaker_name, detected_gender) ==
    IF speaker_name \in DOMAIN va
    THEN [raised |-> FALSE, assignment |-> va[speaker_name], voice_assignments |-> va]
    ELSE IF detected_gender \notin DOMAIN gender_voice_pools
    THEN [raised |-> TRUE, assignment |-> <<>>, voice_assignments |-> va]
    ELSE LET available_voices == gender_voice_pools[detected_gender]
             engine_preferences == gender_engine_preferences[detected_gender]
             same_gender == {s \in DOMAIN va : va[s][3] = detected_gender}
             used_voices_this_gender == {va[s][1] : s \in same_gender}
             unused == FirstUnused(available_voices, used_voices_this_gender)
             voice_index == (Cardinality(same_gender) + 1) % Len(available_voices)
             selected_voice == IF unused # 0 THEN available_voices[unused]
                               ELSE available_voices[voice_index + 1]
             selected_engine == IF selected_voice = available_voices[1]
                                THEN engine_preferences[1] ELSE engine_preferences[2]
             assignment == <<selected_voice, selected_engine, detected_gender>>
         IN  [raised |-> FALSE, assignment |-> assignment,
              voice_assignments |-> (speaker_name :> assignment) @@ va]

(* Result: raised (KeyError on an unknown gender), the assignment, and the *)
(* voice_assignments table after the call.                                 *)
assign_voice_for_speaker(va, speaker_name, detected_gender) ==
    IF speaker_name \in DOMAIN va
    THEN [raised |-> FALSE, assignment |-> va[speaker_name], voice_assignments |-> va]
    ELSE IF detected_gender \notin DOMAIN gender_voice_pools
    THEN [raised |-> TRUE, assignment |-> <<>>, voice_assignments |-> va]
    ELSE LET available_voices == gender_voice_pools[detected_gender]
             engine_preferences == gender_engine_preferences[detected_gender]
             same_gender == {s \in DOMAIN va : va[s][3] = detected_gender}
             used_voices_this_gender == {va[s][1] : s \in same_gender}
             unused == FirstUnused(available_voices, used_voices_this_gender)
             voice_index == Cardinality(same_gender) % Len(available_voices)
             selected_voice == IF unused # 0 THEN available_voices[unused]
                               ELSE available_voices[voice_index + 1]
             selected_engine == IF selected_voice = available_voices[1]
                                THEN engine_preferences[1] ELSE engine_preferences[2]
             assignment == <<selected_voice, selected_engine, detected_gender>>
         IN  [raised |-> FALSE, assignment |-> assignment,
              voice_assignments |-> (speaker_name :> assignment) @@ va]

get_smart_voice_for_speaker(va, speaker_info, content_item) ==
    LET speaker_name == Get(content_item, "speaker", "unknown")
        context == Get(content_item, "context", "")
        detected_gender == detect_speaker_gender(speaker_info, speaker_name, context)
    IN  assign_voice_for_speaker(va, speaker_name, detected_gender)

get_preferred_voice(gender) ==
    IF Lower(gender) = "female" THEN <<"Vicki", "generative">> ELSE <<"Daniel", "generative">>

-----------------------------------------------------------------------------
(* The builder's handlers, on the record st of the generator's fields and  *)
(* the audio directory:                                                    *)
(*   st.audio_sequence, st.total_duration, st.voice_assignments,           *)
(*   st.timing_config, st.audio_config, st.disk, st.raised.                *)
(* env is what the outside gives during one handler: env.tts_ok (Polly     *)
(* answers on some tier of generate_speech, else the call raises),         *)
(* env.clip (length of the audio it returns), env.asset (the pre-recorded  *)
(* intro/outro exists), env.probe_ok (pydub can read the saved file).      *)

(* Mutant of Raise: a step without audio is entered before the exception  *)
(* leaves the handler                                                      *)
Raise_after_empty_step(st) ==
    [st EXCEPT !.audio_sequence = Append(@, [type |-> "empty", start_time |-> st.total_duration,
                                             duration |-> 0]),
               !.raised = TRUE, !.error = "other"]

(* generate_speech raised (every attempt of its ladder failed), or a       *)
(* KeyError: the exception leaves the handler                              *)
Raise(st) == [st EXCEPT !.raised = TRUE, !.error = "other"]

(* section[key] for a key the section does not have: KeyError             *)
MissingField(st) == [st EXCEPT !.raised = TRUE, !.error = "KeyError"]

(* self.generate_speech(...) has been called                               *)
SpeechCalled(st) == [st EXCEPT !.tts_calls = @ + 1]

save_audio(st, output_path, clip) ==
    [st EXCEPT !.disk = (output_path :> clip) @@ @]

get_audio_duration(st, audio_path, probe_ok) ==
    IF probe_ok THEN st.disk[audio_path] ELSE ProbeFallbackDuration

(* Mutants of add_to_sequence: the running total advanced by the clip's    *)
(* duration instead of the slot width; start_time taken after the total    *)
(* has been advanced.                                                      *)
add_to_sequence_by_clip(st, step_data) ==
    LET step == [start_time |-> st.total_duration] @@ step_data
    IN  [st EXCEPT !.audio_sequence = Append(@, step),
                   !.total_duration = @ + Get(step, "duration", 0)]

add_to_sequence_start_after(st, step_data) ==
    LET step_duration == IF "total_duration" \in DOMAIN step_data THEN step_data.total_duration
                         ELSE Get(step_data, "duration", 0)
        step == [start_time |-> st.total_duration + step_duration] @@ step_data
    IN  [st EXCEPT !.audio_sequence = Append(@, step),
                   !.total_duration = @ + step_duration]

add_to_sequence(st, step_data) ==
    LET step == [start_time |-> st.total_duration] @@ step_data
        step_duration == IF "total_duration" \in DOMAIN step THEN step.total_duration
                         ELSE Get(step, "duration", 0)
    IN  [st EXCEPT !.audio_sequence = Append(@, step),
                   !.total_duration = @ + step_duration]

(* intro and outro: copied from assets when present, else synthesized *)
handle_fixed_clip(st, type, path, env) ==
    IF ~env.asset /\ ~env.tts_ok THEN Raise(SpeechCalled(st))
    ELSE LET st1 == save_audio(IF env.asset THEN st ELSE SpeechCalled(st), path, env.clip)
             duration == get_audio_duration(st1, path, env.probe_ok)
         IN  add_to_sequence(st1, [type |-> type, file |-> path, duration |-> duration])

handle_intro_audio(st, section, env) == handle_fixed_clip(st, "intro", "intro.mp3", env)

handle_outro_audio(st, section, env) == handle_fixed_clip(st, "outro", "outro.mp3", env)

handle_instructions_audio(st, section, env) ==
    IF ~env.tts_ok THEN Raise(SpeechCalled(st))
    ELSE LET voice == get_preferred_voice("female")
             instructions_path == "instructions.mp3"
             st1 == save_audio(SpeechCalled(st), instructions_path, env.clip)
             instructions_duration == get_audio_duration(st1, instructions_path, env.probe_ok)
             buffer_time == get_instructions_buffer(st.timing_config)
         IN  add_to_sequence(st1,
                 [type |-> "instructions", file |-> instructions_path,
                  duration |-> instructions_duration,
                  total_duration |-> instructions_duration + buffer_time,
                  buffer_after |-> buffer_time,
                  voice |-> voice[1], engine |-> voice[2]])

(* Line 354 calls generate_speech, line 356 reads section['id']            *)
handle_transition_audio(st, section, env) ==
    IF ~env.tts_ok THEN Raise(SpeechCalled(st))
    ELSE IF "id" \notin DOMAIN section THEN MissingField(SpeechCalled(st))
    ELSE LET voice == get_preferred_voice("female")
             transition_path == "transition_" \o section.id \o ".mp3"
             st1 == save_audio(SpeechCalled(st), transition_path, env.clip)
             transition_duration == get_audio_duration(st1, transition_path, env.probe_ok)
             min_transition_duration == get_transition_duration(st.timing_config)
         IN  add_to_sequence(st1,
                 [type |-> "transition", file |-> transition_path,
                  duration |-> transition_duration,
                  total_duration |-> Max(transition_duration, min_transition_duration),
                  transition_text |-> Get(section, "transition_text", "Uebergang"),
                  voice |-> voice[1], engine |-> voice[2]])

(* Line 409 *)
total_task_duration(task_start_buffer, text_duration, play_count, pause_duration, thinking_time) ==
    task_start_buffer + text_duration * play_count + pause_duration + thinking_time

handle_combined_task_audio(st, section, content, env) ==
    LET task_number == section.task_number
        content_item == content[section.content_ref]
        has_info == /\ "speakers" \in DOMAIN content_item
                    /\ content_item.speaker \in DOMAIN content_item.speakers
        smart == get_smart_voice_for_speaker(st.voice_assignments,
                     content_item.speakers[content_item.speaker], content_item)
        default == get_preferred_voice("female")
        voice_name == IF has_info THEN smart.assignment[1] ELSE default[1]
        engine == IF has_info THEN smart.assignment[2] ELSE default[2]
        detected_gender == IF has_info THEN smart.assignment[3] ELSE "female"
        st0 == IF has_info THEN [st EXCEPT !.voice_assignments = smart.voice_assignments]
               ELSE st
    IN  IF ~({"task_number", "content_ref"} \subseteq DOMAIN section) THEN MissingField(st)
        ELSE IF has_info /\ smart.raised THEN Raise(st)
        ELSE IF ~env.tts_ok THEN Raise(SpeechCalled(st0))
        ELSE LET task_path == "task_" \o ToString(task_number) \o ".mp3"
                 st1 == save_audio(SpeechCalled(st0), task_path, env.clip)
                 task_start_buffer == get_task_start_buffer(st.timing_config)
                 text_duration == get_audio_duration(st1, task_path, env.probe_ok)
                 pause_duration == get_pause_between(st.timing_config)
                 thinking_time == get_thinking_time(st.timing_config)
                 play_count == get_text_play_count(st.audio_config)
             IN  add_to_sequence(st1,
                     [type |-> "combined_task", task_number |-> task_number,
                      file |-> task_path,
                      task_start_buffer |-> task_start_buffer,
                      text_duration |-> text_duration,
                      play_count |-> play_count,
                      pause_between |-> pause_duration,
                      thinking_time |-> thinking_time,
                      total_duration |-> total_task_duration(task_start_buffer,
                          text_duration, play_count, pause_duration, thinking_time),
                      speaker |-> Get(content_item, "speaker", "unknown"),
                      voice |-> voice_name, engine |-> engine,
                      detected_gender |-> detected_gender])

handle_answer_reveal_audio(st, section, env) ==
    IF ~({"task_number", "correct_answer", "answer_text"} \subseteq DOMAIN section)
    THEN MissingField(st)
    ELSE IF ~env.tts_ok THEN Raise(SpeechCalled(st))
    ELSE LET task_number == section.task_number
             voice == get_preferred_voice("female")
             answer_path == "answer_" \o ToString(task_number) \o ".mp3"
             st1 == save_audio(SpeechCalled(st), answer_path, env.clip)
             answer_duration == get_audio_duration(st1, answer_path, env.probe_ok)
             pause_after == get_answer_reveal_pause(st.timing_config)
         IN  add_to_sequence(st1,
                 [type |-> "answer_reveal", task_number |-> task_number,
                  file |-> answer_path,
                  duration |-> answer_duration,
                  pause_after |-> pause_after,
                  total_duration |-> answer_duration + pause_after,
                  correct_answer |-> section.correct_answer,
                  answer_text |-> section.answer_text,
                  voice |-> voice[1], engine |-> voice[2]])

(* Mutant of process_section: the outro branch calls the intro handler *)
process_section_outro_as_intro(st, section, content, env) ==
    CASE section.type \in {"intro", "outro"} -> handle_intro_audio(st, section, env)
      [] section.type = "instructions" -> handle_instructions_audio(st, section, env)
      [] section.type = "transition" -> handle_transition_audio(st, section, env)
      [] section.type = "combined_task" -> handle_combined_task_audio(st, section, content, env)
      [] section.type = "answer_reveal" -> handle_answer_reveal_audio(st, section, env)
      [] OTHER -> st

(* The body of the loop of generate_all_audio, lines 520-544 *)
process_section(st, section, content, env) ==
    CASE "type" \notin DOMAIN section -> MissingField(st)
      [] section.type = "intro" -> handle_intro_audio(st, section, env)
      [] section.type = "instructions" -> handle_instructions_audio(st, section, env)
      [] section.type = "transition" -> handle_transition_audio(st, section, env)
      [] section.type = "combined_task" -> handle_combined_task_audio(st, section, content, env)
      [] section.type = "answer_reveal" -> handle_answer_reveal_audio(st, section, env)
      [] section.type = "outro" -> handle_outro_audio(st, section, env)
      [] OTHER -> st

(* Mutant of reset_sequence: the running total is not set back to 0 *)
reset_sequence_keeps_total(st) ==
    [st EXCEPT !.audio_sequence = <<>>, !.voice_assignments = EmptyDict]

(* Lines 504-507: what a run starts from *)
reset_sequence(st) ==
    [st EXCEPT !.audio_sequence = <<>>, !.total_duration = 0,
               !.voice_assignments = EmptyDict]

(* Lines 546-557: what is written to audio_sequence.json and returned *)
sequence_info(st) ==
    [total_duration |-> st.total_duration,
     audio_files |-> Len(st.audio_sequence),
     sequence |-> st.audio_sequence,
     voice_assignments |-> st.voice_assignments,
     timing_config |-> st.timing_config,
     audio_config |-> st.audio_config]

-----------------------------------------------------------------------------
(* The generator as a state machine *)

Self ==
    [audio_sequence |-> audio_sequence, total_duration |-> total_duration,
     voice_assignments |-> voice_assignments, timing_config |-> timing_config,
     audio_config |-> audio_config, disk |-> disk, raised |-> FALSE,
     tts_calls |-> tts_calls, error |-> "none"]

(* __init__, lines 16-37, and an empty audio directory *)
GenInit ==
    /\ pc = "idle"
    /\ runs = 0
    /\ input = <<>>
    /\ pos = 0
    /\ timing_config = EmptyDict
    /\ audio_config = EmptyDict
    /\ audio_sequence = <<>>
    /\ total_duration = 0
    /\ voice_assignments = EmptyDict
    /\ disk = EmptyDict
    /\ artifact = <<>>
    /\ returned = <<>>
    /\ tts_calls = 0
    /\ gen_error = "none"

(* TimingRespectingAudioVideoSynchronizer before sync_audio_video is called *)
SyncInit ==
    /\ sync_pc = "idle"
    /\ asm_i = 0
    /\ master_audio = <<>>
    /\ current_position = 0
    /\ asm_log = <<>>
    /\ actual_duration = 0
    /\ encode_call = <<>>
    /\ sync_result = "none"

(* No generate_speech call under way *)
SpeechInit ==
    /\ speech_pc = "idle"
    /\ speech_request = <<>>
    /\ speech_stack = <<>>
    /\ polly_calls = <<>>
    /\ speech_result = <<>>

(* No video has been recorded *)
NoRecording ==
    [exists |-> FALSE, measured |-> FALSE, actual_duration |-> 0, is_valid |-> FALSE,
     correction |-> "none", duration |-> 0]

(* TimingCalibratedVideoGenerator.__init__, lines 21-40 *)
PlayInit ==
    /\ drv_pc = "idle"
    /\ drv_i = 0
    /\ clock = 0
    /\ browser_lag_baseline = 0
    /\ cumulative_drift = 0
    /\ timing_measurements = <<>>
    /\ renderer_log = <<>>
    /\ drv_failed = FALSE
    /\ drv_result = "none"
    /\ recording = NoRecording
    /\ temp_files = {}

(* No pipeline has been started *)
PipeInit ==
    /\ pipe_kind = "none"
    /\ pipe_input = <<>>
    /\ pipe_pc = "idle"
    /\ pipe_log = <<>>
    /\ pipe_result = "none"

(* No converter has run, no production JSON is there *)
ConvInit ==
    /\ conv_pc = "idle"
    /\ conv_version = "none"
    /\ user_data = <<>>
    /\ conv_status = "none"
    /\ production_file = <<>>

Init == GenInit /\ SyncInit /\ SpeechInit /\ PlayInit /\ PipeInit /\ ConvInit

(* generate_all_audio up to the loop: load the Teil configuration, reset.  *)
(* A run after a finished one reads the same production JSON and the same  *)
(* configuration again.                                                    *)
GenStart(maxRuns) ==
    /\ pc \in {"idle", "done", "failed"}
    /\ runs < maxRuns
    /\ \E tc \in TimingConfigs, ac \in AudioConfigs :
          /\ returned # <<>> => (tc = timing_config /\ ac = audio_config)
          /\ LET st == reset_sequence([Self EXCEPT !.timing_config = tc, !.audio_config = ac])
             IN  /\ timing_config' = st.timing_config
                 /\ audio_config' = st.audio_config
                 /\ audio_sequence' = st.audio_sequence
                 /\ total_duration' = st.total_duration
                 /\ voice_assignments' = st.voice_assignments
    /\ pc' = "running"
    /\ runs' = runs + 1
    /\ pos' = 0
    /\ tts_calls' = 0
    /\ gen_error' = "none"
    /\ UNCHANGED <<input, disk, artifact, returned>>
    /\ UNCHANGED notGenVars

(* One iteration of the loop.  Sections[i] are the sections the production *)
(* JSON can hold at place i, content its content list, Envs what the        *)
(* outside can do.  A section read before (by an earlier run of the same    *)
(* JSON) is read again with the clip TTS gave for it then.                  *)
ProcessSection(Sections, content, Envs, maxSections) ==
    /\ pc = "running"
    /\ pos < maxSections
    /\ pos < Len(input) \/ returned = <<>>
    /\ \E section \in Sections[pos + 1], env \in Envs :
          /\ pos < Len(input) =>
                /\ section = input[pos + 1].section
                /\ env.tts_ok => env.clip = input[pos + 1].clip
          /\ LET st == process_section(Self, section, content, env)
             IN  /\ audio_sequence' = st.audio_sequence
                 /\ total_duration' = st.total_duration
                 /\ voice_assignments' = st.voice_assignments
                 /\ disk' = st.disk
                 /\ tts_calls' = st.tts_calls
                 /\ gen_error' = IF st.raised THEN st.error ELSE gen_error
                 /\ pc' = IF st.raised THEN "failed" ELSE "running"
                 /\ pos' = IF st.raised THEN pos ELSE pos + 1
                 /\ input' = IF st.raised \/ pos < Len(input) THEN input
                             ELSE Append(input, [section |-> section, clip |-> env.clip])
    /\ UNCHANGED <<runs, timing_config, audio_config, artifact, returned>>
    /\ UNCHANGED notGenVars

(* After the loop: write audio_sequence.json and return, lines 546-573 *)
GenFinish ==
    /\ pc = "running"
    /\ pos = Len(input)
    /\ artifact' = sequence_info(Self)
    /\ returned' = Append(returned, sequence_info(Self))
    /\ pc' = "done"
    /\ UNCHANGED <<runs, input, pos, timing_config, audio_config, audio_sequence,
                   total_duration, voice_assignments, disk, tts_calls, gen_error>>
    /\ UNCHANGED notGenVars

(* main, lines 625-636: the exit code of the process for a run that ended *)
main_exit_code(state) == IF state = "failed" THEN 1 ELSE 0

-----------------------------------------------------------------------------
(* The assembler: sync_audio_video.py lines 52-197.  The master track is   *)
(* the sequence of the segments appended to it; a segment is silence or a  *)
(* clip, has a length, and is tagged with the step it belongs to and what  *)
(* it is there (pad, buffer, clip, pause, thinking, buffer_after,          *)
(* pause_after).  m is the record of master_audio, current_position and    *)
(* the log of the steps processed.                                         *)

Silent(duration, i, part) == [kind |-> "silence", len |-> duration, step |-> i, part |-> part]

ClipSegment(duration, i) == [kind |-> "clip", len |-> duration, step |-> i, part |-> "clip"]

RECURSIVE TrackLen(_)
(* len(master_audio) *)
TrackLen(track) ==
    IF track = <<>> THEN 0 ELSE TrackLen(SubSeq(track, 1, Len(track) - 1)) + track[Len(track)].len

(* Lines 78-110: the clip file of a step, "" when there is none *)
audio_file_of(step) ==
    CASE step.type = "intro" -> "intro.mp3"
      [] step.type = "instructions" -> "instructions.mp3"
      [] step.type = "transition" -> "transition_" \o Get(step, "id", "unknown") \o ".mp3"
      [] step.type = "combined_task" -> "task_" \o ToString(Get(step, "task_number", 1)) \o ".mp3"
      [] step.type = "answer_reveal" -> "answer_" \o ToString(Get(step, "task_number", 1)) \o ".mp3"
      [] step.type = "outro" -> "outro.mp3"
      [] OTHER -> Get(step, "file", "")

(* Mutant of pad_to_start: the silence is appended, the cursor stays *)
pad_to_start_cursor_stays(m, step, i) ==
    IF step.start_time > m.current_position
    THEN [m EXCEPT !.master_audio = Append(@, Silent(step.start_time - m.current_position, i, "pad"))]
    ELSE m

(* Lines 71-76: silence up to the step's start_time *)
pad_to_start(m, step, i) ==
    IF step.start_time > m.current_position
    THEN [m EXCEPT !.master_audio = Append(@, Silent(step.start_time - m.current_position, i, "pad")),
                   !.current_position = step.start_time]
    ELSE m

(* Lines 93-99: the task start buffer, as silence before the clip *)
task_start_silence(m, step, i) ==
    LET task_start_buffer == Get(step, "task_start_buffer", 0)
    IN  IF step.type = "combined_task" /\ task_start_buffer > 0
        THEN [m EXCEPT !.master_audio = Append(@, Silent(task_start_buffer, i, "buffer")),
                       !.current_position = @ + task_start_buffer]
        ELSE m

(* Lines 117-144: the clip of a step, repeated for a task *)
append_clip(m, step, i, clip) ==
    LET play_count == Get(step, "play_count", 2)
        pause_between == Get(step, "pause_between", 3000)
        thinking_time == Get(step, "thinking_time", 5000)
    IN  IF step.type = "combined_task" /\ play_count = 2
        THEN [m EXCEPT !.master_audio = @ \o << ClipSegment(clip, i),
                                                Silent(pause_between, i, "pause"),
                                                ClipSegment(clip, i),
                                                Silent(thinking_time, i, "thinking") >>,
                       !.current_position = @ + clip * 2 + pause_between + thinking_time]
        ELSE [m EXCEPT !.master_audio = Append(@, ClipSegment(clip, i)),
                       !.current_position = @ + clip]

(* Lines 146-162: the silence after instructions and after an answer reveal *)
trailing_silence(m, step, i) ==
    LET buffer_after == Get(step, "buffer_after", 0)
        pause_after == Get(step, "pause_after", 0)
    IN  IF step.type = "instructions" /\ buffer_after > 0
        THEN [m EXCEPT !.master_audio = Append(@, Silent(buffer_after, i, "buffer_after")),
                       !.current_position = @ + buffer_after]
        ELSE IF step.type = "answer_reveal" /\ pause_after > 0
        THEN [m EXCEPT !.master_audio = Append(@, Silent(pause_after, i, "pause_after")),
                       !.current_position = @ + pause_after]
        ELSE m

(* One iteration of the loop of lines 64-169 for step number i.  dsk is    *)
(* the audio directory; load_ok is whether pydub can read the clip file.   *)
assemble_step(m, step, i, dsk, load_ok) ==
    LET m1 == pad_to_start(m, step, i)
        begin == TrackLen(m1.master_audio)
        audio_file == audio_file_of(step)
        m2 == task_start_silence(m1, step, i)
        found == audio_file # "" /\ audio_file \in DOMAIN dsk
        m3 == IF found /\ load_ok
              THEN trailing_silence(append_clip(m2, step, i, dsk[audio_file]), step, i)
              ELSE m2
    IN  [m3 EXCEPT !.asm_log = Append(@, [begin |-> begin, loaded |-> found /\ load_ok])]

(* Mutant of target_duration_of: the timeline's total is handed over *)
target_duration_expected(returned_duration, sequence, video_duration) == sequence.total_duration

(* Lines 376-378: the target duration sync_audio_video hands to the encode *)
target_duration_of(returned_duration, sequence, video_duration) == returned_duration

-----------------------------------------------------------------------------
(* sync_audio_video as a state machine *)

(* Lines 293-367: the audio directory and audio_sequence.json are there,   *)
(* a video is found and ffmpeg answers; otherwise None is returned.        *)
SyncStart ==
    /\ sync_pc = "idle"
    /\ pc \in {"done", "failed"}
    /\ \E video_found \in BOOLEAN, ffmpeg_ok \in BOOLEAN :
          IF artifact # <<>> /\ video_found /\ ffmpeg_ok
          THEN /\ sync_pc' = "assembling"
               /\ sync_result' = sync_result
          ELSE /\ sync_pc' = "done"
               /\ sync_result' = "None"
    /\ UNCHANGED <<asm_i, master_audio, current_position, asm_log, actual_duration, encode_call>>
    /\ UNCHANGED notSyncVars

(* One step of the sequence *)
AsmStep ==
    /\ sync_pc = "assembling"
    /\ asm_i < Len(artifact.sequence)
    /\ \E load_ok \in BOOLEAN :
          LET m == assemble_step([master_audio |-> master_audio,
                                  current_position |-> current_position,
                                  asm_log |-> asm_log],
                                 artifact.sequence[asm_i + 1], asm_i + 1, disk, load_ok)
          IN  /\ master_audio' = m.master_audio
              /\ current_position' = m.current_position
              /\ asm_log' = m.asm_log
    /\ asm_i' = asm_i + 1
    /\ UNCHANGED <<sync_pc, actual_duration, encode_call, sync_result>>
    /\ UNCHANGED notSyncVars

(* Lines 171-197: export the track and return its length *)
AsmFinish ==
    /\ sync_pc = "assembling"
    /\ asm_i = Len(artifact.sequence)
    /\ actual_duration' = TrackLen(master_audio)
    /\ sync_pc' = "assembled"
    /\ UNCHANGED <<asm_i, master_audio, current_position, asm_log, encode_call, sync_result>>
    /\ UNCHANGED notSyncVars

(* Lines 375-391 and combine_audio_video_with_precise_timing: the encode,  *)
(* given the measured duration of the video (or none) and ffmpeg's result. *)
Combine(VideoDurations) ==
    /\ sync_pc = "assembled"
    /\ \E video_duration \in VideoDurations, success \in BOOLEAN :
          /\ encode_call' = [target_duration |->
                                target_duration_of(actual_duration, artifact, video_duration),
                             video_duration |-> video_duration, success |-> success]
          /\ sync_result' = IF success THEN "output_path" ELSE "None"
    /\ sync_pc' = "done"
    /\ UNCHANGED <<asm_i, master_audio, current_position, asm_log, actual_duration>>
    /\ UNCHANGED notSyncVars

-----------------------------------------------------------------------------
(* generate_speech: generate_audio.py lines 115-162.  A frame is one        *)
(* activation of generate_speech: its voice_name and engine, and the line   *)
(* it has reached: "call" (about to call synthesize_speech, line 117) or     *)
(* the line of the recursive call it waits for (134, 139, 145, 150).        *)

get_fallback_voice(voice_name) ==
    CASE voice_name = "Vicki" -> "Marlene"
      [] voice_name = "Daniel" -> "Hans"
      [] voice_name = "Marlene" -> "Marlene"
      [] voice_name = "Hans" -> "Hans"
      [] OTHER -> "Marlene"

Frame(voice_name, engine) == [voice_name |-> voice_name, engine |-> engine, at |-> "call"]

Top(stack) == stack[Len(stack)]

Pop(stack) == SubSeq(stack, 1, Len(stack) - 1)

(* The top frame moves to line at and calls generate_speech(voice, engine) *)
Recurse(stack, at, voice_name, engine) ==
    [stack |-> Append(Append(Pop(stack), [Top(stack) EXCEPT !.at = at]),
                      Frame(voice_name, engine)),
     outcome |-> "running"]

RECURSIVE propagate(_)
(* An exception leaves a frame and arrives in its caller, the top of       *)
(* stack: the try of line 133 catches it and calls the fallback voice      *)
(* (lines 135-139); from lines 139, 145 and 150 it goes on to the caller.  *)
propagate(stack) ==
    IF stack = <<>> THEN [stack |-> <<>>, outcome |-> "raised"]
    ELSE IF Top(stack).at = "line134"
    THEN Recurse(stack, "line139", get_fallback_voice(Top(stack).voice_name), "standard")
    ELSE propagate(Pop(stack))

(* Mutant of except_block: the last resort is tried without the guard of   *)
(* line 149                                                                *)
except_block_unguarded(stack) ==
    LET voice_name == Top(stack).voice_name
        engine == Top(stack).engine
        fallback_voice == get_fallback_voice(voice_name)
    IN  IF engine = "generative" THEN Recurse(stack, "line134", voice_name, "standard")
        ELSE IF engine = "standard" /\ fallback_voice # voice_name
        THEN Recurse(stack, "line145", fallback_voice, "standard")
        ELSE Recurse(stack, "line150", "Marlene", "standard")

(* Lines 126-152: synthesize_speech raised in the top frame *)
except_block(stack) ==
    LET voice_name == Top(stack).voice_name
        engine == Top(stack).engine
        fallback_voice == get_fallback_voice(voice_name)
    IN  IF engine = "generative" THEN Recurse(stack, "line134", voice_name, "standard")
        ELSE IF engine = "standard" /\ fallback_voice # voice_name
        THEN Recurse(stack, "line145", fallback_voice, "standard")
        ELSE IF voice_name # "Marlene" \/ engine # "standard"
        THEN Recurse(stack, "line150", "Marlene", "standard")
        ELSE propagate(Pop(stack))

(* Mutant of return_audio: a frame waiting at line 134 drops what the      *)
(* call returned and goes on to the fallback voice                         *)
return_audio_dropped(stack, audio) ==
    IF \E k \in 1..(Len(stack) - 1) : stack[k].at = "line134"
    THEN propagate(Pop(stack)) @@ [result |-> <<>>]
    ELSE [stack |-> <<>>, outcome |-> "returned", result |-> audio]

(* Line 124 and the returns of lines 134, 139, 145, 150: every frame       *)
(* returns what its call returned                                          *)
return_audio(stack, audio) == [stack |-> <<>>, outcome |-> "returned", result |-> audio]

(* A call of generate_speech(text, voice_name, engine) *)
GenerateSpeech(Voices, Engines) ==
    /\ speech_pc = "idle"
    /\ \E voice_name \in Voices, engine \in Engines :
          /\ speech_request' = <<voice_name, engine>>
          /\ speech_stack' = << Frame(voice_name, engine) >>
    /\ speech_pc' = "running"
    /\ UNCHANGED <<polly_calls, speech_result>>
    /\ UNCHANGED notSpeechVars

(* One synthesize_speech call (lines 117-124) and what follows it up to    *)
(* the next one.  Polly answers with audio of some length, or raises.      *)
Synthesize ==
    /\ speech_pc = "running"
    /\ Top(speech_stack).at = "call"
    /\ \E ok \in BOOLEAN, clip \in ClipLens :
          LET audio == [attempt |-> Len(polly_calls) + 1, clip |-> clip]
              next == IF ok THEN return_audio(speech_stack, audio)
                      ELSE except_block(speech_stack) @@ [result |-> <<>>]
          IN  /\ ~ok => clip = 1000
              /\ polly_calls' = Append(polly_calls,
                                    [voice_name |-> Top(speech_stack).voice_name,
                                     engine |-> Top(speech_stack).engine,
                                     ok |-> ok, depth |-> Len(speech_stack)])
              /\ speech_stack' = next.stack
              /\ speech_pc' = next.outcome
              /\ speech_result' = next.result
    /\ UNCHANGED speech_request
    /\ UNCHANGED notSpeechVars

(* The voices generate_speech is called with: the four of the pools, and   *)
(* one the fallback map does not list.                                     *)
SpeechVoices == {"Vicki", "Marlene", "Daniel", "Hans", "Lea"}

SpeechEngines == {"generative", "standard", "neural"}

SpeechNext ==
    \/ GenerateSpeech(SpeechVoices, SpeechEngines)
    \/ Synthesize

SpecSpeech == Init /\ [][SpeechNext]_vars

(* The interpreter goes on running a call that has started *)
SpecSpeechLive == SpecSpeech /\ WF_vars(Synthesize)

-----------------------------------------------------------------------------
(* The calibrated playback driver: generate_video_synchronized.py          *)
(* (TimingCalibratedVideoGenerator).  clock is get_current_time() in whole *)
(* milliseconds; lags and drift are whole milliseconds too.  A wait loop   *)
(* is one step of the model: it ends at the first poll at or after its     *)
(* threshold, which is the threshold plus the part of the last sleep that  *)
(* went past it.                                                           *)

SyncTolerance == 20
DriftWeightTenths == 3
SettleDelay == 5
CompletionDelay == 500

(* Average lag the calibration probes can measure *)
BaselineLags == {0, 100}

(* How far past its threshold a wait loop's last sleep can end *)
Overshoots == {0, 8}

(* How long a page.evaluate call can take *)
RenderTimes == {0, 200}

(* A page.evaluate call returns after some time, or raises at once *)
RenderOutcomes(ok) == IF ok THEN RenderTimes ELSE {0}

(* What the page.evaluate calls of a session can do: whether the call      *)
(* returns, and the time it takes                                          *)
PageOutcomes == UNION { { [ok |-> ok, d |-> d] : d \in RenderOutcomes(ok) } : ok \in BOOLEAN }

(* The state of the playback session at each position of the code *)
SessionState(position) ==
    CASE position = "idle" -> "Uncalibrated"
      [] position \in {"calibrating", "calibrated"} -> "Calibrating"
      [] position \in {"injecting", "waiting", "rendering", "completing"} -> "Playing"
      [] position = "completed" -> "Completed"

(* Lines 218-232: the time at which wait_until_calibrated_time returns     *)
wait_until_calibrated_time(now, target_time, baseline, drift, overshoot) ==
    LET compensated_target == target_time - baseline - drift
    IN  IF now >= compensated_target - SyncTolerance THEN now
        ELSE compensated_target - SyncTolerance + overshoot

(* Lines 234-257: cumulative_drift and timing_measurements after the call  *)
track_timing_drift(now, drift, measurements, expected_time, step_index) ==
    LET actual_time == now
        step_error == actual_time - expected_time
        cumulative == IF Len(measurements) = 0 THEN step_error
                      ELSE ((10 - DriftWeightTenths) * drift + DriftWeightTenths * step_error) \div 10
    IN  [cumulative_drift |-> cumulative,
         timing_measurements |-> Append(measurements,
             [step |-> step_index, expected |-> expected_time, actual |-> actual_time,
              error |-> step_error, cumulative_drift |-> cumulative])]

(* Lines 277-304: the step has a renderer call, and what the call needs    *)
has_renderer_call(step) ==
    CASE step.type \in {"intro", "instructions", "transition", "outro"} -> TRUE
      [] step.type = "combined_task" -> "task_number" \in DOMAIN step
      [] step.type = "answer_reveal" ->
            {"task_number", "correct_answer", "answer_text"} \subseteq DOMAIN step
      [] OTHER -> FALSE

RendererEvent(op, kind, step_index, at) == [op |-> op, kind |-> kind, step |-> step_index, at |-> at]

(* Mutants of after_step_error: the session is calibrated again; the step  *)
(* is tried again                                                          *)
after_step_error_recalibrate(i, n) == [position |-> "calibrating", i |-> i, failed |-> FALSE]

after_step_error_retry(i, n) == [position |-> "waiting", i |-> i, failed |-> FALSE]

(* Lines 306-307 and 414-415: the exception of a renderer call is printed  *)
(* and the loop goes on with the next step                                 *)
after_step_error(i, n) == [position |-> "waiting", i |-> i + 1, failed |-> FALSE]

(* Lines 140-153: the temporary HTML file is written and tracked           *)
create_temp_html(files) == files \cup {"temp.html"}

(* Mutant of cleanup_temp_files: the files are forgotten, not removed      *)
cleanup_temp_files_forgets(files) == files

(* Lines 155-162: every tracked temporary file is removed                  *)
cleanup_temp_files(files) == {}

(* record_calibrated_video up to the session, lines 462-567: the timeline  *)
(* artifact, the template and the browser are there, or None is returned.  *)
RecordStart ==
    /\ drv_pc = "idle"
    /\ drv_result = "none"
    /\ pc \in {"done", "failed"}
    /\ \E setup_ok \in BOOLEAN :
          IF artifact # <<>> /\ setup_ok
          THEN /\ drv_pc' = "calibrating"
               /\ drv_result' = drv_result
               /\ temp_files' = create_temp_html(temp_files)
          ELSE /\ drv_pc' = drv_pc
               /\ drv_result' = "None"
               /\ temp_files' = temp_files
    /\ UNCHANGED <<drv_i, clock, browser_lag_baseline, cumulative_drift, timing_measurements,
                   renderer_log, drv_failed>>
    /\ UNCHANGED <<recording, notPlayVars>>

(* calibrate_browser_timing, lines 170-216 *)
Calibrate ==
    /\ drv_pc = "calibrating"
    /\ \E avg_lag \in BaselineLags : browser_lag_baseline' = avg_lag
    /\ drv_pc' = "calibrated"
    /\ UNCHANGED <<drv_i, clock, cumulative_drift, timing_measurements, renderer_log,
                   drv_failed, drv_result>>
    /\ UNCHANGED <<recording, temp_files, notPlayVars>>

(* Lines 390-395: session-zero time is recorded, the drift tracking reset  *)
BeginPlaying ==
    /\ drv_pc = "calibrated"
    /\ clock' = 0
    /\ cumulative_drift' = 0
    /\ timing_measurements' = <<>>
    /\ drv_pc' = "injecting"
    /\ UNCHANGED <<drv_i, browser_lag_baseline, renderer_log, drv_failed, drv_result>>
    /\ UNCHANGED <<recording, temp_files, notPlayVars>>

(* Lines 397-401: the sequence is handed to the page, a page.evaluate that *)
(* takes time and can raise                                                *)
InjectReturns(Outcomes) ==
    /\ drv_pc = "injecting"
    /\ \E o \in Outcomes :
          /\ clock' = clock + o.d
          /\ drv_pc' = IF o.ok THEN "waiting" ELSE "completed"
          /\ drv_failed' = ~o.ok
    /\ UNCHANGED <<drv_i, browser_lag_baseline, cumulative_drift, timing_measurements,
                   renderer_log, drv_result>>
    /\ UNCHANGED <<recording, temp_files, notPlayVars>>

(* execute_calibrated_step up to the renderer call, lines 259-304: wait,   *)
(* track the drift, call page.evaluate for the step.                       *)
WaitAndInvoke ==
    /\ drv_pc = "waiting"
    /\ drv_i < Len(artifact.sequence)
    /\ \E overshoot \in Overshoots :
          LET step == artifact.sequence[drv_i + 1]
              now == wait_until_calibrated_time(clock, step.start_time, browser_lag_baseline,
                                                cumulative_drift, overshoot)
              tracked == track_timing_drift(now, cumulative_drift, timing_measurements,
                                            step.start_time, drv_i + 1)
          IN  /\ clock >= step.start_time - browser_lag_baseline - cumulative_drift - SyncTolerance
                    => overshoot = 0
              /\ cumulative_drift' = tracked.cumulative_drift
              /\ timing_measurements' = tracked.timing_measurements
              /\ IF has_renderer_call(step)
                 THEN /\ clock' = now
                      /\ renderer_log' = Append(renderer_log,
                                             RendererEvent("call", step.type, drv_i + 1, now))
                      /\ drv_pc' = "rendering"
                      /\ drv_i' = drv_i
                 ELSE /\ clock' = now + SettleDelay
                      /\ renderer_log' = renderer_log
                      /\ drv_pc' = "waiting"
                      /\ drv_i' = drv_i + 1
    /\ UNCHANGED <<browser_lag_baseline, drv_failed, drv_result>>
    /\ UNCHANGED <<recording, temp_files, notPlayVars>>

(* The renderer call of a step returns or raises, then lines 306-307 and   *)
(* 414-415                                                                 *)
RendererReturns(Outcomes) ==
    /\ drv_pc = "rendering"
    /\ \E o \in Outcomes :
          LET ok == o.ok
              d == o.d
              next == IF ok THEN [position |-> "waiting", i |-> drv_i + 1, failed |-> FALSE]
                      ELSE after_step_error(drv_i, Len(artifact.sequence))
          IN  /\ renderer_log' = Append(renderer_log,
                     RendererEvent(IF ok THEN "return" ELSE "error",
                                   artifact.sequence[drv_i + 1].type, drv_i + 1, clock + d))
              /\ clock' = clock + d + (IF next.position = "waiting" THEN SettleDelay ELSE 0)
              /\ drv_pc' = next.position
              /\ drv_i' = next.i
              /\ drv_failed' = next.failed
    /\ UNCHANGED <<browser_lag_baseline, cumulative_drift, timing_measurements, drv_result>>
    /\ UNCHANGED <<recording, temp_files, notPlayVars>>

(* Mutant of final_target: the tolerance of the step waits is taken off    *)
final_target_less_tolerance(total, baseline, drift) ==
    total - baseline - drift - SyncTolerance

(* Line 419: the elapsed time the final wait runs to                       *)
final_target(total, baseline, drift) == total - baseline - drift

(* Lines 417-432: the final wait, then the completion call is made         *)
FinalWait ==
    /\ drv_pc = "waiting"
    /\ drv_i = Len(artifact.sequence)
    /\ \E overshoot \in Overshoots :
          LET target == final_target(artifact.total_duration, browser_lag_baseline,
                                     cumulative_drift)
              now == IF clock >= target THEN clock ELSE target + overshoot
          IN  /\ clock >= target => overshoot = 0
              /\ clock' = now
              /\ renderer_log' = Append(renderer_log, RendererEvent("call", "completion", 0, now))
    /\ drv_pc' = "completing"
    /\ UNCHANGED <<drv_i, browser_lag_baseline, cumulative_drift, timing_measurements,
                   drv_failed, drv_result>>
    /\ UNCHANGED <<recording, temp_files, notPlayVars>>

(* The completion call returns or raises; lines 432-433 *)
CompletionReturns(Outcomes) ==
    /\ drv_pc = "completing"
    /\ \E o \in Outcomes :
          /\ renderer_log' = Append(renderer_log,
                 RendererEvent(IF o.ok THEN "return" ELSE "error", "completion", 0, clock + o.d))
          /\ clock' = clock + o.d + (IF o.ok THEN CompletionDelay ELSE 0)
          /\ drv_failed' = ~o.ok
    /\ drv_pc' = "completed"
    /\ UNCHANGED <<drv_i, browser_lag_baseline, cumulative_drift, timing_measurements, drv_result>>
    /\ UNCHANGED <<recording, temp_files, notPlayVars>>

(* Line 581: the tolerance record_calibrated_video validates with          *)
RecordingTolerance == 500

(* How long the recorded file can be, for a timeline of that total         *)
RecordedDurations(total) == {Max(0, total - 1000), total, total + 2000}

(* Lines 309-352: get_video_duration gives the duration or None; the       *)
(* speed correction is the quotient expected / actual, kept as the pair    *)
(* <<expected, actual>>, and <<>> is None                                  *)
validate_recording_timing(video, expected_duration, tolerance) ==
    IF ~video.probe_ok
    THEN [is_valid |-> FALSE, measured |-> FALSE, actual_duration |-> 0,
          speed_correction |-> <<>>]
    ELSE LET duration_error == video.duration - expected_duration
         IN  [is_valid |-> Abs(duration_error) <= tolerance, measured |-> TRUE,
              actual_duration |-> video.duration,
              speed_correction |-> IF video.duration > 0
                                   THEN <<expected_duration, video.duration>> ELSE <<>>]

(* Line 584: 'speed_factor' as a condition: not None and not 0.0           *)
Truthy(speed_factor) == speed_factor # <<>> /\ speed_factor[1] # 0

(* Lines 354-365: ffmpeg's setpts filter multiplies every time stamp, and  *)
(* so the duration, by the number it is given, which is 1/speed_factor     *)
(* written with six decimals: whole, thousandths and millionths of it are  *)
(* found by long division, the last digit rounded                          *)
apply_speed_correction(duration, speed_factor) ==
    LET expected == speed_factor[1]
        actual == speed_factor[2]
        whole == actual \div expected
        thousandths == ((actual % expected) * 1000) \div expected
        millionths == ((((actual % expected) * 1000) % expected) * 2000 + expected)
                          \div (2 * expected)
    IN  duration * whole
        + (duration * thousandths + (duration * millionths) \div 1000) \div 1000

(* Mutant of after_validation: a recording that is off and was not         *)
(* corrected is not returned                                               *)
after_validation_strict(is_valid, correction) ==
    IF is_valid \/ correction = "applied" THEN "output_path" ELSE "None"

(* Lines 584-598: what record_calibrated_video returns after validation    *)
after_validation(is_valid, correction) == "output_path"

(* record_calibrated_video after the session, lines 567-610: an exception  *)
(* of the session gives None, no recorded file gives None; the recorded    *)
(* file is validated, re-timed if it is off, and returned.  Line 610, the   *)
(* finally block, removes the temporary files on every way out.            *)
Finalize ==
    /\ drv_pc = "completed"
    /\ drv_result = "none"
    /\ \E video_found \in BOOLEAN :
          IF drv_failed \/ ~video_found
          THEN /\ drv_result' = "None"
               /\ recording' = recording
          ELSE \E duration \in RecordedDurations(artifact.total_duration),
                  probe_ok, ffmpeg_ok \in BOOLEAN :
                  LET v == validate_recording_timing(
                               [probe_ok |-> probe_ok, duration |-> duration],
                               artifact.total_duration, RecordingTolerance)
                      wanted == ~v.is_valid /\ Truthy(v.speed_correction)
                      correction == IF ~wanted THEN "none"
                                    ELSE IF ffmpeg_ok THEN "applied" ELSE "failed"
                  IN  /\ ~wanted => ffmpeg_ok
                      /\ recording' =
                             [exists |-> TRUE, measured |-> v.measured,
                              actual_duration |-> v.actual_duration, is_valid |-> v.is_valid,
                              correction |-> correction,
                              duration |-> IF correction = "applied"
                                           THEN apply_speed_correction(duration, v.speed_correction)
                                           ELSE duration]
                      /\ drv_result' = after_validation(v.is_valid, correction)
    /\ temp_files' = cleanup_temp_files(temp_files)
    /\ UNCHANGED <<drv_pc, drv_i, clock, browser_lag_baseline, cumulative_drift,
                   timing_measurements, renderer_log, drv_failed>>
    /\ UNCHANGED notPlayVars

(* Line 231: how long an iteration of the step wait sleeps, in whole ms    *)
sleep_time(now, compensated_target) == Min(10, Max(2, (compensated_target - now) \div 4))

(* Line 422: how long an iteration of the final wait sleeps                *)
FinalSleepTime == 10

(* How much later than asked an asyncio.sleep can end                      *)
SleepLates == {0, 10}

(* Line 227: the step wait of the step at hand breaks at this poll         *)
AtStepTime ==
    /\ drv_pc = "waiting"
    /\ drv_i < Len(artifact.sequence)
    /\ clock >= artifact.sequence[drv_i + 1].start_time - browser_lag_baseline
                    - cumulative_drift - SyncTolerance

(* Line 421: the final wait ends at this poll                              *)
AtFinalTime ==
    /\ drv_pc = "waiting"
    /\ drv_i = Len(artifact.sequence)
    /\ clock >= final_target(artifact.total_duration, browser_lag_baseline, cumulative_drift)

(* Lines 225-232: an iteration of the step wait that does not break        *)
Sleep ==
    /\ drv_pc = "waiting"
    /\ drv_i < Len(artifact.sequence)
    /\ ~AtStepTime
    /\ \E late \in SleepLates :
          clock' = clock + late
                     + sleep_time(clock, artifact.sequence[drv_i + 1].start_time
                                             - browser_lag_baseline - cumulative_drift)
    /\ UNCHANGED <<drv_pc, drv_i, browser_lag_baseline, cumulative_drift, timing_measurements,
                   renderer_log, drv_failed, drv_result>>
    /\ UNCHANGED <<recording, temp_files, notPlayVars>>

(* Lines 421-422: an iteration of the final wait                           *)
FinalSleep ==
    /\ drv_pc = "waiting"
    /\ drv_i = Len(artifact.sequence)
    /\ ~AtFinalTime
    /\ \E late \in SleepLates : clock' = clock + FinalSleepTime + late
    /\ UNCHANGED <<drv_pc, drv_i, browser_lag_baseline, cumulative_drift, timing_measurements,
                   renderer_log, drv_failed, drv_result>>
    /\ UNCHANGED <<recording, temp_files, notPlayVars>>

(* The session is cancelled (KeyboardInterrupt, a cancelled task): the     *)
(* exception is not an Exception, so line 602 does not catch it; the       *)
(* finally block of line 609 runs and the exception leaves                 *)
(* record_calibrated_video; main exits with 1 (lines 665-667).             *)
Cancel ==
    /\ drv_pc \in {"calibrating", "calibrated", "injecting", "waiting", "rendering",
                   "completing"}
    /\ drv_pc' = "completed"
    /\ drv_failed' = TRUE
    /\ drv_result' = "cancelled"
    /\ temp_files' = cleanup_temp_files(temp_files)
    /\ UNCHANGED <<drv_i, clock, browser_lag_baseline, cumulative_drift, timing_measurements,
                   renderer_log, recording>>
    /\ UNCHANGED notPlayVars

-----------------------------------------------------------------------------
(* The pipelines: complete_pipeline.py (CompletePipeline) and              *)
(* synchronized_pipeline.py (SynchronizedPipeline).  A stage is a script   *)
(* run as a process of its own by run_script, or the ffmpeg call of the    *)
(* MP4 conversion; what a pipeline sees of it is how the process ended     *)
(* and whether the file it looks for afterwards is there.                  *)

(* run_complete_pipeline, test_individual_components (the option          *)
(* --test-components of complete_pipeline.py) and run_synchronized_pipeline *)
PipelineKinds == {"complete", "components", "synchronized"}

ScriptStages == {"convert", "audio", "video", "sync"}

(* How a run_script call can end: the script is not there, subprocess      *)
(* raises, or the process exits with a code                                *)
ScriptEnds == {"missing", "exception", "exit0", "exit1"}

(* run_script: complete_pipeline.py lines 36-74, synchronized_pipeline.py  *)
(* lines 38-76                                                             *)
run_script(ran) == ran = "exit0"

(* main of both pipelines: sys.exit(0 if success else 1)                   *)
pipeline_exit_code(result) == IF result = "True" THEN 0 ELSE 1

(* The stage after a stage that went well                                  *)
next_stage(kind, stage) ==
    IF kind \in {"complete", "components"}
    THEN CASE stage = "convert" -> "audio"
           [] stage = "audio" -> "video"
           [] stage = "video" -> "sync"
           [] stage = "sync" -> "report"
    ELSE CASE stage = "convert" -> "audio"
           [] stage = "audio" -> "analyze"
           [] stage = "analyze" -> "video"
           [] stage = "video" -> "validate"
           [] stage = "validate" -> "sync"
           [] stage = "sync" -> "find_synced"
           [] stage = "find_synced" -> "mp4"
           [] stage = "mp4" -> "report"

(* The file a pipeline looks for after a stage: the synchronized pipeline  *)
(* looks for none after sync_audio_video.py (lines 429-432), and           *)
(* test_individual_components only for the production JSON (lines 279-282) *)
checks_output(kind, stage) ==
    /\ ~(kind = "synchronized" /\ stage = "sync")
    /\ ~(kind = "components" /\ stage # "convert")

(* Mutant of after_stage: a failed video stage is passed over              *)
after_stage_video_passed(kind, stage, success, output) ==
    IF (success /\ (output \/ ~checks_output(kind, stage))) \/ stage = "video"
    THEN next_stage(kind, stage) ELSE "returned"

(* 'if not success: return False' and the check of the stage's file        *)
after_stage(kind, stage, success, output) ==
    IF success /\ (output \/ ~checks_output(kind, stage))
    THEN next_stage(kind, stage) ELSE "returned"

(* synchronized_pipeline.py lines 417-421: the validation is logged only   *)
after_sync_validation(sync_valid) == "sync"

(* The success report: complete_pipeline.py lines 243-255 return True;     *)
(* so does test_individual_components at lines 308-309;                    *)
(* synchronized_pipeline.py lines 511-538 read total_time at line 529,     *)
(* a name the function never binds, and the NameError is caught at line    *)
(* 540, where False is returned                                            *)
report_result(kind) == IF kind \in {"complete", "components"} THEN "True" ELSE "False"

(* synchronized_pipeline.py validate_timing_synchronization, lines 78-160, *)
(* of audio_sequence.json and the video file                               *)
validate_timing_synchronization(sequence_file, video_exists) ==
    IF sequence_file = <<>> \/ ~video_exists THEN FALSE
    ELSE LET sequence_steps == sequence_file.sequence
             end_of(i) == IF i = 0 THEN 0
                          ELSE sequence_steps[i].start_time +
                               Get(sequence_steps[i], "total_duration",
                                   Get(sequence_steps[i], "duration", 0))
             timing_issues ==
                 { i \in 1..Len(sequence_steps) :
                     \/ sequence_steps[i].start_time > end_of(i - 1) + 500
                     \/ sequence_steps[i].start_time < end_of(i - 1) - 100 }
             timing_drift == Abs(end_of(Len(sequence_steps)) - sequence_file.total_duration)
         IN  /\ sequence_file.total_duration > 0
             /\ Len(sequence_steps) >= 5
             /\ timing_issues = {}
             /\ timing_drift <= 1000

(* File names.  A stem is the sequence of its parts, "_user" and          *)
(* "_production" being parts of their own, so that endswith('_user'),      *)
(* [:-5] and replace('_production', '') are computed on it; a path is the  *)
(* directory, the stem and the suffix.                                     *)

(* convert_content.py create_safe_output_path, lines 73-94: where the     *)
(* converter writes the production JSON                                    *)
create_safe_output_path(stem) ==
    LET base_name == IF stem[Len(stem)] = "_user" THEN SubSeq(stem, 1, Len(stem) - 1) ELSE stem
    IN  [dir |-> "content/teil1/production-ready", stem |-> base_name \o <<"_production">>,
         suffix |-> ".json"]

(* complete_pipeline.py lines 180 and 194: where run_complete_pipeline     *)
(* looks for the production JSON                                           *)
production_json(stem) ==
    [dir |-> "content/teil1/production-ready", stem |-> stem \o <<"_production">>,
     suffix |-> ".json"]

(* generate_video.py lines 236-245: where record_video writes the video of *)
(* the production JSON at production_json_path, no output path given       *)
record_video_output_path(production_json_path) ==
    [dir |-> "output/videos",
     stem |-> SelectSeq(production_json_path.stem, LAMBDA part : part # "_production"),
     suffix |-> ".webm"]

(* complete_pipeline.py lines 173-177 and 225: where run_complete_pipeline *)
(* looks for the video, no output name given                               *)
video_file(stem) ==
    LET output_name == IF stem[Len(stem)] = "_user" THEN SubSeq(stem, 1, Len(stem) - 1)
                       ELSE stem
    IN  [dir |-> "output/videos", stem |-> output_name, suffix |-> ".webm"]

(* run_complete_pipeline lines 153-183, run_synchronized_pipeline lines    *)
(* 306-344: the input file and the prerequisites are checked;              *)
(* test_individual_components lines 266-269 checks the input file only     *)
PipeStart(Kinds, Stems) ==
    /\ pipe_pc = "idle"
    /\ pipe_result = "none"
    /\ \E kind \in Kinds, stem \in Stems, input_exists \in BOOLEAN, prerequisites \in BOOLEAN :
          /\ (~input_exists \/ kind = "components") => prerequisites
          /\ pipe_kind' = kind
          /\ pipe_input' = stem
          /\ IF input_exists /\ prerequisites
             THEN /\ pipe_pc' = "convert"
                  /\ pipe_result' = pipe_result
             ELSE /\ pipe_pc' = "returned"
                  /\ pipe_result' = "False"
    /\ UNCHANGED pipe_log
    /\ UNCHANGED notPipeVars

(* A stage script has ended: complete_pipeline.py lines 186-241,           *)
(* synchronized_pipeline.py lines 347-432.  Outcomes[stage] is how the     *)
(* script of the stage can have ended, and whether its file is there.      *)
RunStage(Outcomes) ==
    /\ pipe_pc \in ScriptStages
    /\ \E o \in Outcomes[pipe_pc] :
          LET success == run_script(o.ran)
              next == after_stage(pipe_kind, pipe_pc, success, o.output)
          IN  /\ pipe_log' = Append(pipe_log,
                     [stage |-> pipe_pc, success |-> success, output |-> o.output])
              /\ pipe_pc' = next
              /\ pipe_result' = IF next = "returned" THEN "False" ELSE pipe_result
    /\ UNCHANGED <<pipe_kind, pipe_input>>
    /\ UNCHANGED notPipeVars

(* Files of the audio directory named <prefix>N.mp3 *)
NumberedFiles(dsk, prefix) ==
    { f \in DOMAIN dsk : \E n \in 0..9 : f = prefix \o ToString(n) \o ".mp3" }

(* synchronized_pipeline.py analyze_audio_structure, lines 162-190 *)
analyze_audio_structure(dsk) ==
    /\ Cardinality(NumberedFiles(dsk, "text_")) = 5
    /\ Cardinality(NumberedFiles(dsk, "question_")) = 5

(* synchronized_pipeline.py lines 372-374: the audio directory is looked   *)
(* through, and the run goes on whatever is found                          *)
Analyze(Structures) ==
    /\ pipe_pc = "analyze"
    /\ \E structure_ok \in Structures :
          pipe_log' = Append(pipe_log,
              [stage |-> "analyze", success |-> structure_ok, output |-> TRUE])
    /\ pipe_pc' = next_stage(pipe_kind, pipe_pc)
    /\ UNCHANGED <<pipe_kind, pipe_input, pipe_result>>
    /\ UNCHANGED notPipeVars

(* synchronized_pipeline.py lines 413-421: step 4, the validation          *)
Validate(Valid) ==
    /\ pipe_pc = "validate"
    /\ \E sync_valid \in Valid :
          LET next == after_sync_validation(sync_valid)
          IN  /\ pipe_log' = Append(pipe_log,
                     [stage |-> "validate", success |-> sync_valid, output |-> TRUE])
              /\ pipe_pc' = next
              /\ pipe_result' = IF next = "returned" THEN "False" ELSE pipe_result
    /\ UNCHANGED <<pipe_kind, pipe_input>>
    /\ UNCHANGED notPipeVars

(* synchronized_pipeline.py lines 434-467: a video file with an audio      *)
(* stream is looked for                                                    *)
FindSynced ==
    /\ pipe_pc = "find_synced"
    /\ \E has_audio \in BOOLEAN :
          /\ pipe_log' = Append(pipe_log,
                 [stage |-> pipe_pc, success |-> has_audio, output |-> has_audio])
          /\ pipe_pc' = IF has_audio THEN next_stage(pipe_kind, pipe_pc) ELSE "returned"
          /\ pipe_result' = IF has_audio THEN pipe_result ELSE "False"
    /\ UNCHANGED <<pipe_kind, pipe_input>>
    /\ UNCHANGED notPipeVars

(* synchronized_pipeline.py lines 469-509: step 6, the ffmpeg conversion   *)
(* to the final MP4 and the check that the file is there                   *)
ConvertMp4 ==
    /\ pipe_pc = "mp4"
    /\ \E ran \in {"exception", "exit0", "exit1"}, final_exists \in BOOLEAN :
          LET success == ran = "exit0"
              next == after_stage(pipe_kind, pipe_pc, success, final_exists)
          IN  /\ ~success => ~final_exists
              /\ pipe_log' = Append(pipe_log,
                     [stage |-> pipe_pc, success |-> success, output |-> final_exists])
              /\ pipe_pc' = next
              /\ pipe_result' = IF next = "returned" THEN "False" ELSE pipe_result
    /\ UNCHANGED <<pipe_kind, pipe_input>>
    /\ UNCHANGED notPipeVars

(* The success report at the end of the try block, and the return          *)
Report ==
    /\ pipe_pc = "report"
    /\ pipe_result' = report_result(pipe_kind)
    /\ pipe_pc' = "returned"
    /\ UNCHANGED <<pipe_kind, pipe_input, pipe_log>>
    /\ UNCHANGED notPipeVars

-----------------------------------------------------------------------------
(* The converters: convert_content.py and convert_content_old.py           *)
(* (convert_user_to_production).  Seconds are whole milliseconds; a text   *)
(* is the sequence of its words, which is what text.split() gives.         *)

ConverterVersions == {"convert_content", "convert_content_old"}

(* range(1, 6): the converters make sections for five texts and questions  *)
TextCount == 5

(* estimate_audio_duration: max(words / 2.5, 5.0)                          *)
estimate_audio_duration(text) ==
    IF Len(text) = 0 THEN 5000 ELSE Max((Len(text) * 10000) \div 25, 5000)

(* estimate_question_duration: max(words / 1.67 + 8, 10.0)                 *)
estimate_question_duration(question) ==
    IF Len(question) = 0 THEN 10000
    ELSE Max((Len(question) * 100000) \div 167 + 8000, 10000)

(* Mutant of pause_after: the last question pauses like the others         *)
pause_after_flat(i) == 30000

(* convert_content.py line 194, convert_content_old.py line 78             *)
pause_after(i) == IF i < 5 THEN 30000 ELSE 10000

instructions_section ==
    [id |-> "instructions", html_element |-> "instruction-panel",
     audio |-> [play_count |-> 1, estimated_duration |-> 15000]]

text_section(i, data) ==
    [id |-> "text_" \o ToString(i), html_element |-> "content-panel-" \o ToString(i),
     content_reference |-> i,
     audio |-> [play_count |-> 2, pause_between |-> 3000,
                estimated_duration |-> estimate_audio_duration(data.texts[i].text)]]

question_section(i, data) ==
    [id |-> "question_" \o ToString(i), html_element |-> "question-panel-" \o ToString(i),
     question_reference |-> i,
     audio |-> [play_count |-> 1, pause_after |-> pause_after(i),
                estimated_duration |->
                    estimate_question_duration(data.questions[i].question)]]

(* convert_content.py lines 157-212: instructions, then a text and a       *)
(* question section for i = 1..5                                           *)
sections_of(data) ==
    [k \in 1..(1 + 2 * TextCount) |->
        IF k = 1 THEN instructions_section
        ELSE IF k % 2 = 0 THEN text_section(k \div 2, data)
        ELSE question_section(k \div 2, data)]

(* convert_content.py lines 215-234 *)
content_entry(i, text_data) ==
    LET speaker == Get(text_data, "speaker_name", "Speaker")
    IN  [number |-> i, context |-> Get(text_data, "context", ""),
         setup |-> Get(text_data, "setup", ""), type |-> "monologue",
         speakers |-> (speaker :> [voice_name |-> Get(text_data, "voice_preference", "Marlene"),
                                   engine |-> "neural", language |-> "de-DE",
                                   gender |-> Get(text_data, "gender", "female"),
                                   role |-> Get(text_data, "role", "service_provider")]),
         text |-> text_data.text, speaker |-> speaker]

(* convert_content.py lines 238-244 *)
question_entry(i, question_data) ==
    [number |-> i, question |-> question_data.question, answer_type |-> "text",
     options |-> question_data.options, correct_answer |-> question_data.correct_answer]

(* Mutant of solution_entry: an answer key that is no option gives an      *)
(* empty description                                                       *)
solution_entry_lenient(i, question_data) ==
    [raised |-> FALSE,
     entry |-> [number |-> i, answer |-> question_data.correct_answer,
                description |-> Get(question_data.options, question_data.correct_answer, "")]]

(* convert_content.py lines 247-251: options[correct_answer] is a KeyError *)
(* when the key is no option                                               *)
solution_entry(i, question_data) ==
    IF question_data.correct_answer \notin DOMAIN question_data.options
    THEN [raised |-> TRUE, entry |-> <<>>]
    ELSE [raised |-> FALSE,
          entry |-> [number |-> i, answer |-> question_data.correct_answer,
                     description |-> question_data.options[question_data.correct_answer]]]

production_data(data) ==
    [exam_info |-> [level |-> "A2", teil |-> 1, ubung |-> Get(data, "exercise_number", 1)],
     sections |-> sections_of(data),
     content |-> [i \in 1..Len(data.texts) |-> content_entry(i, data.texts[i])],
     questions |-> [i \in 1..Len(data.questions) |-> question_entry(i, data.questions[i])],
     solutions |-> [i \in 1..Len(data.questions) |->
                        solution_entry(i, data.questions[i]).entry]]

(* convert_user_to_production after the user JSON is loaded: how it ends   *)
(* and what it writes.  convert_content.py checks the fields and the       *)
(* counts first and exits with 1 (lines 119-133); in the old converter a   *)
(* text or question that is not there is an IndexError (lines 67, 86).     *)
(* A KeyError leaves both before the file is opened for writing.           *)
convert_user_to_production(version, data, write_ok) ==
    LET failed(status) == [status |-> status, production |-> <<>>]
        checked == version = "convert_content"
    IN  IF checked /\ ~({"exercise_number", "texts", "questions"} \subseteq DOMAIN data)
        THEN failed("exit1")
        ELSE IF checked /\ (Len(data.texts) # TextCount \/ Len(data.questions) # TextCount)
        THEN failed("exit1")
        ELSE IF Len(data.texts) < TextCount \/ Len(data.questions) < TextCount
        THEN failed("error")
        ELSE IF \E i \in 1..Len(data.questions) : solution_entry(i, data.questions[i]).raised
        THEN failed("error")
        ELSE IF ~write_ok
        THEN failed(IF checked THEN "exit1" ELSE "error")
        ELSE [status |-> "written", production |-> production_data(data)]

(* The user JSON is loaded: convert_content.py lines 99-117 (a path that   *)
(* is not allowed or not there exits with 1), convert_content_old.py lines *)
(* 16-17 (FileNotFoundError)                                               *)
LoadUserJson(Inputs) ==
    /\ conv_pc = "idle"
    /\ \E version \in ConverterVersions, path_ok \in BOOLEAN, data \in Inputs :
          /\ conv_version' = version
          /\ IF path_ok
             THEN /\ user_data' = data
                  /\ conv_pc' = "loaded"
                  /\ conv_status' = conv_status
             ELSE /\ user_data' = user_data
                  /\ conv_pc' = "done"
                  /\ conv_status' = IF version = "convert_content" THEN "exit1" ELSE "error"
    /\ UNCHANGED production_file
    /\ UNCHANGED notConvVars

(* The conversion and the write of the production JSON *)
Convert ==
    /\ conv_pc = "loaded"
    /\ \E write_ok \in BOOLEAN :
          LET result == convert_user_to_production(conv_version, user_data, write_ok)
          IN  /\ conv_status' = result.status
              /\ production_file' = IF result.status = "written" THEN result.production
                                     ELSE production_file
    /\ conv_pc' = "done"
    /\ UNCHANGED <<conv_version, user_data>>
    /\ UNCHANGED notConvVars

-----------------------------------------------------------------------------
(* Inputs of the timeline specifications *)

SectionTypes ==
    {"intro", "instructions", "transition", "combined_task", "answer_reveal", "outro",
     "question"}

(* The sections a production JSON can hold at place i: any type the loop   *)
(* dispatches on, and one it does not know ("question").                   *)
TimelineSections ==
    [i \in 1..(MaxSections + MaxRerunSections) |->
        { [type |-> t, id |-> "s" \o ToString(i), task_number |-> 1, content_ref |-> 1,
            correct_answer |-> "b", answer_text |-> "Antwort"] :
            t \in SectionTypes }]

TimelineContent == << [text |-> "Hallo", speaker |-> "Sprecher"] >>

TimelineEnvs ==
    { [tts_ok |-> ok, clip |-> c, asset |-> FALSE, probe_ok |-> TRUE] :
        ok \in BOOLEAN, c \in ClipLens }

GenNext ==
    \/ GenStart(1)
    \/ ProcessSection(TimelineSections, TimelineContent, TimelineEnvs, MaxSections)
    \/ GenFinish

SpecGen == Init /\ [][GenNext]_vars

-----------------------------------------------------------------------------
(* generate_audio.py when pydub may fail to read a clip it has just saved  *)

ProbeEnvs ==
    { [tts_ok |-> TRUE, clip |-> c, asset |-> a, probe_ok |-> p] :
        c \in ClipLens, a \in BOOLEAN, p \in BOOLEAN }

ProbeNext ==
    \/ GenStart(1)
    \/ ProcessSection(TimelineSections, TimelineContent, ProbeEnvs, MaxRerunSections)
    \/ GenFinish

SpecProbe == Init /\ [][ProbeNext]_vars

-----------------------------------------------------------------------------
(* Two runs of the same production JSON on one generator instance *)

RerunNext ==
    \/ GenStart(MaxRuns)
    \/ ProcessSection(TimelineSections, TimelineContent, TimelineEnvs, MaxRerunSections)
    \/ GenFinish

SpecRerun == Init /\ [][RerunNext]_vars

-----------------------------------------------------------------------------
(* Production JSONs around the full form: lead-in, instructions, then       *)
(* transition, task, answer reveal per unit, closing transition, lead-out.  *)

MaxUnits == 1

RECURSIVE UnitTypes(_)
UnitTypes(n) ==
    IF n = 0 THEN <<>>
    ELSE UnitTypes(n - 1) \o <<"transition", "combined_task", "answer_reveal">>

ShapeTypes(n) == <<"intro", "instructions">> \o UnitTypes(n) \o <<"transition", "outro">>

(* At place i: the section of the full form with MaxUnits units, or a      *)
(* section of a type the builder does not know.  The production JSON may   *)
(* end anywhere.                                                           *)
ShapeSections ==
    [i \in 1..(3 * MaxUnits + 4) |->
        LET unit == IF i <= 2 THEN 1 ELSE ((i - 3) \div 3) + 1
        IN  { [type |-> t, id |-> "s" \o ToString(i), task_number |-> unit, content_ref |-> 1,
            correct_answer |-> "b", answer_text |-> "Antwort"] :
                t \in {ShapeTypes(MaxUnits)[i], "question"} }]

ShapeEnvs ==
    { [tts_ok |-> ok, clip |-> 4000, asset |-> a, probe_ok |-> TRUE] :
        ok \in BOOLEAN, a \in BOOLEAN }

ShapeNext ==
    \/ GenStart(1)
    \/ ProcessSection(ShapeSections, TimelineContent, ShapeEnvs, 3 * MaxUnits + 4)
    \/ GenFinish

SpecShape == Init /\ [][ShapeNext]_vars

-----------------------------------------------------------------------------
(* Production JSONs of narration tasks with several speakers *)

MaxVoiceSections == 3

(* data['content']: a unit may carry a speakers map with an entry for its  *)
(* speaker (explicit gender, a voice name, or a role only) or none.        *)
VoiceContent ==
    << [text |-> "t1", speaker |-> "Kundin",
        speakers |-> ("Kundin" :> [gender |-> "female"])],
       [text |-> "t2", speaker |-> "Trainer",
        speakers |-> ("Trainer" :> [gender |-> "Male", role |-> "Trainer"])],
       [text |-> "t3", speaker |-> "Trainer"],
       [text |-> "t4", speaker |-> "Trainer",
        speakers |-> ("Trainer" :> [role |-> "Trainer"])],
       [text |-> "t5", speaker |-> "Sprecher",
        speakers |-> ("Sprecher" :> [voice_name |-> "Hans"])],
       [text |-> "t6", speaker |-> "Kundin",
        speakers |-> ("Kundin" :> [gender |-> "male"])],
       [text |-> "t7", speaker |-> "Gast",
        speakers |-> ("Gast" :> [gender |-> "divers"])],
       [text |-> "t8", speaker |-> "Herr Meier",
        speakers |-> ("Herr Meier" :> [role |-> "Herr Meier"])] >>

VoiceSections ==
    [i \in 1..MaxVoiceSections |->
        { [type |-> "combined_task", id |-> "s" \o ToString(i), task_number |-> i,
           content_ref |-> r,
           correct_answer |-> "b", answer_text |-> "Antwort"] : r \in 1..Len(VoiceContent) }]

VoiceEnvs ==
    { [tts_ok |-> ok, clip |-> 4000, asset |-> FALSE, probe_ok |-> TRUE] : ok \in BOOLEAN }

VoiceNext ==
    \/ GenStart(1)
    \/ ProcessSection(VoiceSections, VoiceContent, VoiceEnvs, MaxVoiceSections)
    \/ GenFinish

SpecVoice == Init /\ [][VoiceNext]_vars

-----------------------------------------------------------------------------
(* generate_audio.py on a production JSON of one spoken section, with the  *)
(* generate_speech call of its handler played attempt by attempt: the      *)
(* handler goes on with what the call returned, or the exception leaves    *)
(* it.                                                                     *)

SpokenSections ==
    << { [type |-> t, id |-> "s1", task_number |-> 1, content_ref |-> r,
          correct_answer |-> "b", answer_text |-> "Antwort"] :
            t \in {"instructions", "transition", "combined_task", "answer_reveal"},
            r \in {1, 2} } >>

(* What the handler gets from its generate_speech call, once the call has *)
(* ended: the audio some attempt gave, or the exception                    *)
SpeechEnvs ==
    IF speech_pc = "returned"
    THEN { [tts_ok |-> TRUE, clip |-> speech_result.clip, asset |-> FALSE, probe_ok |-> TRUE] }
    ELSE IF speech_pc = "raised"
    THEN { [tts_ok |-> FALSE, clip |-> 1000, asset |-> FALSE, probe_ok |-> TRUE] }
    ELSE {}

(* The call that was played is the call of the handler: the voice_name and *)
(* engine the handler passes to generate_speech are the ones it enters in  *)
(* the step (lines 396 and 422-423)                                        *)
HandlerAsked ==
    pc' # "failed" =>
        LET step == audio_sequence'[Len(audio_sequence')]
        IN  /\ step.voice = speech_request[1]
            /\ step.engine = speech_request[2]

SpokenNext ==
    \/ GenStart(1)
    \/ (pc = "running" /\ GenerateSpeech({"Vicki", "Daniel"}, {"generative"}))
    \/ (pc = "running" /\ Synthesize)
    \/ (ProcessSection(SpokenSections, VoiceContent, SpeechEnvs, 1) /\ HandlerAsked)
    \/ GenFinish

SpecSpoken == Init /\ [][SpokenNext]_vars

-----------------------------------------------------------------------------
(* generate_audio.py on narration tasks whose speaker entries carry every  *)
(* combination of a gender field, a voice name, a role, a speaker name and *)
(* a context, agreeing or not.                                             *)

(* data['content'][r - 1]: the r-th of the 3 * 4 * 5 * 3 * 2 combinations  *)
(* of a gender field, a voice name, a role, a speaker name and a context,  *)
(* r - 1 read as a number of mixed radix; a field may not be there         *)
GenderContentItem(r) ==
    LET n == r - 1
        absent == "(absent)"
        gender == <<absent, "Male", "female">>[(n % 3) + 1]
        voice_name == <<absent, "Hans", "Vicki", "Lea">>[((n \div 3) % 4) + 1]
        role == <<absent, "Kundin", "Trainer", "Herr Meier", "Frau Schmidt">>[((n \div 12) % 5) + 1]
        speaker == <<"Gast", "Kundin", "Trainer">>[((n \div 60) % 3) + 1]
        context == <<absent, "Verkaeuferin">>[((n \div 180) % 2) + 1]
        values == [gender |-> gender, voice_name |-> voice_name, role |-> role]
        speaker_info == [k \in {key \in DOMAIN values : values[key] # absent} |-> values[k]]
        item == [text |-> "t", speaker |-> speaker, speakers |-> (speaker :> speaker_info)]
    IN  IF context = absent THEN item ELSE ("context" :> context) @@ item

GenderContent == [r \in 1..360 |-> GenderContentItem(r)]

(* One narration task, of any of the units *)
GenderSections ==
    << { [type |-> "combined_task", id |-> "s1", task_number |-> r, content_ref |-> r] :
           r \in 1..Len(GenderContent) } >>

GenderNext ==
    \/ GenStart(1)
    \/ ProcessSection(GenderSections, GenderContent, VoiceEnvs, 1)
    \/ GenFinish

SpecGender == Init /\ [][GenderNext]_vars

-----------------------------------------------------------------------------
(* The pipeline of generate_audio.py and then sync_audio_video.py on the   *)
(* same production JSON.                                                   *)

MaxSyncSections == 2

(* Two sections may carry the same task_number *)
TaskNumbers == {1, 2}

SyncSections ==
    [i \in 1..MaxSyncSections |->
        UNION { { [type |-> t, id |-> "s" \o ToString(i), task_number |-> n, content_ref |-> 1,
            correct_answer |-> "b", answer_text |-> "Antwort"] :
                    n \in IF t \in {"combined_task", "answer_reveal"} THEN TaskNumbers ELSE {1} } :
                t \in SectionTypes \ {"question"} }]

(* get_video_duration: None, or the measured duration *)
SyncVideoDurations == { [ok |-> FALSE], [ok |-> TRUE, duration |-> 9000] }

SyncNext ==
    \/ GenStart(1)
    \/ ProcessSection(SyncSections, TimelineContent, TimelineEnvs, MaxSyncSections)
    \/ GenFinish
    \/ SyncStart
    \/ AsmStep
    \/ AsmFinish
    \/ Combine(SyncVideoDurations)

SpecSync == Init /\ [][SyncNext]_vars

-----------------------------------------------------------------------------
(* generate_audio.py and then generate_video_synchronized.py on the same   *)
(* production JSON.                                                        *)

MaxPlaySections == 2

PlaySections ==
    [i \in 1..MaxPlaySections |->
        { [type |-> t, id |-> "s" \o ToString(i), task_number |-> i, content_ref |-> 1,
           correct_answer |-> "b", answer_text |-> "Antwort"] :
            t \in IF i = 1 THEN {"intro", "combined_task"}
                  ELSE {"combined_task", "answer_reveal"} }]

PlayEnvs ==
    { [tts_ok |-> ok, clip |-> 1000, asset |-> FALSE, probe_ok |-> TRUE] : ok \in BOOLEAN }

PlayNext ==
    \/ GenStart(1)
    \/ ProcessSection(PlaySections, TimelineContent, PlayEnvs, MaxPlaySections)
    \/ GenFinish
    \/ RecordStart
    \/ Calibrate
    \/ BeginPlaying
    \/ InjectReturns(PageOutcomes)
    \/ WaitAndInvoke
    \/ RendererReturns(PageOutcomes)
    \/ FinalWait
    \/ CompletionReturns(PageOutcomes)
    \/ Finalize

SpecPlay == Init /\ [][PlayNext]_vars

-----------------------------------------------------------------------------
(* The playback driver with its wait loops taken one iteration at a time,  *)
(* on timelines of fixed clips of 100 ms, and a session that can be        *)
(* cancelled.  Time goes on (every sleep ends), every page.evaluate call   *)
(* returns or raises, and the code goes on from where it is.               *)

MaxLiveSections == 2

LiveSections == [i \in 1..MaxLiveSections |-> { [type |-> t] : t \in {"intro", "outro"} }]

LiveEnvs == { [tts_ok |-> TRUE, clip |-> 100, asset |-> FALSE, probe_ok |-> TRUE] }

PlayLiveNext ==
    \/ GenStart(1)
    \/ ProcessSection(LiveSections, TimelineContent, LiveEnvs, MaxLiveSections)
    \/ GenFinish
    \/ RecordStart
    \/ Calibrate
    \/ BeginPlaying
    \/ InjectReturns(PageOutcomes)
    \/ Sleep
    \/ (AtStepTime /\ WaitAndInvoke)
    \/ RendererReturns(PageOutcomes)
    \/ FinalSleep
    \/ (AtFinalTime /\ FinalWait)
    \/ CompletionReturns(PageOutcomes)
    \/ Finalize
    \/ Cancel

SpecPlayLive ==
    /\ Init
    /\ [][PlayLiveNext]_vars
    /\ WF_vars(Calibrate)
    /\ WF_vars(BeginPlaying)
    /\ WF_vars(InjectReturns(PageOutcomes))
    /\ WF_vars(Sleep)
    /\ WF_vars(AtStepTime /\ WaitAndInvoke)
    /\ WF_vars(RendererReturns(PageOutcomes))
    /\ WF_vars(FinalSleep)
    /\ WF_vars(AtFinalTime /\ FinalWait)
    /\ WF_vars(CompletionReturns(PageOutcomes))
    /\ WF_vars(Finalize)

-----------------------------------------------------------------------------
(* The playback driver against a page whose page.evaluate calls all take   *)
(* the same 200 ms and never raise, on a timeline of five steps.           *)

MaxDriftSections == 5

DriftSections ==
    [i \in 1..MaxDriftSections |->
        { [type |-> t, id |-> "s" \o ToString(i), task_number |-> i, content_ref |-> 1,
           correct_answer |-> "b", answer_text |-> "Antwort"] :
            t \in IF i = 1 THEN {"intro"} ELSE {"combined_task", "answer_reveal"} }]

DriftEnvs == { [tts_ok |-> TRUE, clip |-> 1000, asset |-> FALSE, probe_ok |-> TRUE] }

ConstantLag == { [ok |-> TRUE, d |-> 200] }

DriftNext ==
    \/ GenStart(1)
    \/ ProcessSection(DriftSections, TimelineContent, DriftEnvs, MaxDriftSections)
    \/ GenFinish
    \/ RecordStart
    \/ Calibrate
    \/ BeginPlaying
    \/ InjectReturns(ConstantLag)
    \/ WaitAndInvoke
    \/ RendererReturns(ConstantLag)
    \/ FinalWait
    \/ CompletionReturns(ConstantLag)
    \/ Finalize

SpecDrift == Init /\ [][DriftNext]_vars

-----------------------------------------------------------------------------
(* generate_audio.py on a production JSON whose sections may lack a field  *)
(* their handler reads.                                                    *)

MaxMalformedSections == 3

(* The section without one of its keys *)
Without(section, key) == [k \in DOMAIN section \ {key} |-> section[k]]

MalformedSections ==
    [i \in 1..MaxMalformedSections |->
        LET whole == { [type |-> t, id |-> "s" \o ToString(i), task_number |-> i,
                        content_ref |-> 1, correct_answer |-> "b", answer_text |-> "Antwort"] :
                         t \in {"intro", "transition", "combined_task", "answer_reveal"} }
        IN  whole \cup { Without(section, key) : section \in whole, key \in {"id", "task_number"} }]

MalformedNext ==
    \/ GenStart(1)
    \/ ProcessSection(MalformedSections, TimelineContent, PlayEnvs, MaxMalformedSections)
    \/ GenFinish

SpecMalformed == Init /\ [][MalformedNext]_vars

-----------------------------------------------------------------------------
(* The converters on user JSONs of four to six texts and questions, whose  *)
(* answer keys may be no option of their question.                         *)

MaxQuestions == 6

OptionKeys == {"a", "b", "c"}

AnswerKeys == {"b", "d"}

UserText(i) == [number |-> i, text |-> <<"Die", "Torte", "kostet", "zwanzig", "Euro">>]

UserQuestion(i, key) ==
    [number |-> i, question |-> <<"Was", "kostet", "die", "Torte">>,
     options |-> [k \in OptionKeys |-> "option " \o k \o " of " \o ToString(i)],
     correct_answer |-> key]

UserInputs ==
    UNION { UNION { { [exercise_number |-> 5,
                       texts |-> [i \in 1..nt |-> UserText(i)],
                       questions |-> [i \in 1..nq |-> UserQuestion(i, keys[i])]],
                      [texts |-> [i \in 1..nt |-> UserText(i)],
                       questions |-> [i \in 1..nq |-> UserQuestion(i, keys[i])]] } :
                        keys \in [1..nq -> AnswerKeys] } :
                nt \in {4, 5}, nq \in 4..MaxQuestions }

ConvertNext ==
    \/ LoadUserJson(UserInputs)
    \/ Convert

SpecConvert == Init /\ [][ConvertNext]_vars

-----------------------------------------------------------------------------
(* convert_content.py and then generate_audio.py on the production JSON it *)
(* wrote, as both pipelines run them (synchronized_pipeline.py lines       *)
(* 346-364).                                                               *)

(* data['sections'] and data['content'] of the production JSON on disk     *)
WrittenSections ==
    IF conv_status = "written"
    THEN [i \in 1..Len(production_file.sections) |-> {production_file.sections[i]}]
    ELSE <<>>

HandOverNext ==
    \/ LoadUserJson(UserInputs)
    \/ Convert
    \/ (conv_status = "written" /\ GenStart(1))
    \/ ProcessSection(WrittenSections, production_file.content, TimelineEnvs, Len(WrittenSections))
    \/ GenFinish

SpecHandOver == Init /\ [][HandOverNext]_vars

-----------------------------------------------------------------------------
(* Both pipelines with the scripts as processes of which only the end is   *)
(* seen.                                                                   *)

StageOutcomes ==
    [stage \in ScriptStages |->
        { [ran |-> ran, output |-> output] : ran \in ScriptEnds, output \in BOOLEAN } \
        { [ran |-> ran, output |-> TRUE] : ran \in ScriptEnds \ {"exit0"} }]

StagesNext ==
    \/ PipeStart(PipelineKinds, {<<"uebung1">>})
    \/ RunStage(StageOutcomes)
    \/ Analyze(BOOLEAN)
    \/ Validate(BOOLEAN)
    \/ FindSynced
    \/ ConvertMp4
    \/ Report

SpecStages == Init /\ [][StagesNext]_vars

-----------------------------------------------------------------------------
(* complete_pipeline.py with the files of the convert and the video stage  *)
(* looked for where run_complete_pipeline computes them, and written where *)
(* convert_content.py and generate_video.py compute them.                  *)

MaxStemParts == 2

(* Stems of user_json_path: a name, then up to MaxStemParts further parts *)
InputStems ==
    { <<"uebung1">> \o rest :
        rest \in UNION { [1..n -> {"_a2", "_teil1", "_user", "_production"}] : n \in 0..MaxStemParts } }

(* A script that ends with exit code 0 has written its file; the pipeline  *)
(* finds it when it looks at the path the script wrote.  generate_video.py *)
(* is handed the path at which the pipeline found the production JSON.     *)
PathOutcomes ==
    [stage \in ScriptStages |->
        CASE stage = "convert" ->
                { [ran |-> "exit0",
                   output |-> production_json(pipe_input) = create_safe_output_path(pipe_input)],
                  [ran |-> "exit1", output |-> FALSE] }
          [] stage = "video" ->
                { [ran |-> "exit0",
                   output |-> video_file(pipe_input) =
                              record_video_output_path(production_json(pipe_input))],
                  [ran |-> "exit1", output |-> FALSE] }
          [] OTHER -> StageOutcomes[stage]]

PathsNext ==
    \/ PipeStart({"complete"}, InputStems)
    \/ RunStage(PathOutcomes)
    \/ Report

SpecPaths == Init /\ [][PathsNext]_vars

-----------------------------------------------------------------------------
(* The synchronized pipeline with its scripts: generate_audio.py,          *)
(* generate_video_synchronized.py and sync_audio_video.py run when their   *)
(* stage is reached, and the stage ends as the script's main ends.         *)

(* generate_video_synchronized.py main, lines 612-670, and                 *)
(* sync_audio_video.py main, lines 505-523: exit code by the result        *)
script_end(result) == IF result = "output_path" THEN "exit0" ELSE "exit1"

PipelineOutcomes ==
    [stage \in ScriptStages |->
        CASE stage = "convert" ->
                { [ran |-> "exit0", output |-> TRUE], [ran |-> "exit1", output |-> FALSE] }
          [] stage = "audio" ->
                IF pc \in {"done", "failed"}
                THEN { [ran |-> IF main_exit_code(pc) = 0 THEN "exit0" ELSE "exit1",
                        output |-> TRUE] }
                ELSE {}
          [] stage = "video" ->
                IF drv_pc = "exited"
                THEN { [ran |-> script_end(drv_result), output |-> recording.exists] }
                ELSE {}
          [] stage = "sync" ->
                IF sync_pc = "done"
                THEN { [ran |-> script_end(sync_result), output |-> sync_result = "output_path"] }
                ELSE {}]

(* The process of generate_video_synchronized.py ends: what its generator  *)
(* held in memory is gone, the recorded file and the exit code are left    *)
VideoExit ==
    /\ drv_result # "none"
    /\ drv_pc # "exited"
    /\ drv_pc' = "exited"
    /\ drv_i' = 0
    /\ clock' = 0
    /\ browser_lag_baseline' = 0
    /\ cumulative_drift' = 0
    /\ timing_measurements' = <<>>
    /\ renderer_log' = <<>>
    /\ drv_failed' = FALSE
    /\ UNCHANGED <<drv_result, recording, temp_files>>
    /\ UNCHANGED notPlayVars

(* The recorded video as sync_audio_video.py measures it *)
PipelineVideoDurations ==
    { [ok |-> FALSE], [ok |-> TRUE, duration |-> recording.duration] }

(* A page whose calls take no time *)
QuietPage == { [ok |-> ok, d |-> 0] : ok \in BOOLEAN }

PipelineNext ==
    \/ PipeStart({"synchronized"}, {<<"uebung1">>})
    \/ RunStage(PipelineOutcomes)
    \/ (pipe_pc = "audio" /\ GenStart(1))
    \/ (pipe_pc = "audio" /\
           ProcessSection(PlaySections, TimelineContent, PlayEnvs, MaxPlaySections))
    \/ (pipe_pc = "audio" /\ GenFinish)
    \/ (pipe_pc = "video" /\ RecordStart)
    \/ (pipe_pc = "video" /\ Calibrate)
    \/ (pipe_pc = "video" /\ BeginPlaying)
    \/ (pipe_pc = "video" /\ InjectReturns(QuietPage))
    \/ (pipe_pc = "video" /\ WaitAndInvoke)
    \/ (pipe_pc = "video" /\ RendererReturns(QuietPage))
    \/ (pipe_pc = "video" /\ FinalWait)
    \/ (pipe_pc = "video" /\ CompletionReturns(QuietPage))
    \/ (pipe_pc = "video" /\ Finalize)
    \/ (pipe_pc = "video" /\ VideoExit)
    \/ Analyze({analyze_audio_structure(disk)})
    \/ Validate({validate_timing_synchronization(artifact, recording.exists)})
    \/ (pipe_pc = "sync" /\ SyncStart)
    \/ (pipe_pc = "sync" /\ AsmStep)
    \/ (pipe_pc = "sync" /\ AsmFinish)
    \/ (pipe_pc = "sync" /\ Combine(PipelineVideoDurations))
    \/ FindSynced
    \/ ConvertMp4
    \/ Report

SpecPipeline == Init /\ [][PipelineNext]_vars

-----------------------------------------------------------------------------
(* Helpers of the claims *)

SlotWidth(step) ==
    IF "total_duration" \in DOMAIN step THEN step.total_duration ELSE step.duration

RECURSIVE SumSlots(_)
SumSlots(seq) ==
    IF seq = <<>> THEN 0 ELSE SumSlots(SubSeq(seq, 1, Len(seq) - 1)) + SlotWidth(seq[Len(seq)])

Contiguous(seq) ==
    \A i \in 1..(Len(seq) - 1) : seq[i + 1].start_time = seq[i].start_time + SlotWidth(seq[i])

Types(seq) == [i \in 1..Len(seq) |-> seq[i].type]

KnownType(t) == t \in SectionTypes \ {"question"}

InputTypes == [i \in 1..Len(input) |-> input[i].section.type]

NumUnits == Cardinality({i \in 1..Len(input) : input[i].section.type = "combined_task"})

-----------------------------------------------------------------------------
(* C1 -- No gaps, no overlaps: in the sequence the builder holds at any    *)
(* moment and in every timeline it has written, each step starts where the *)
(* step before it ends: step[i+1].start_time = step[i].start_time + the    *)
(* slot width of step[i], which is total_duration, or duration for a step  *)
(* (intro, outro) that has no total_duration.                              *)
C1_NoGapNoOverlap ==
    /\ Contiguous(audio_sequence)
    /\ artifact # <<>> => Contiguous(artifact.sequence)

(* A written timeline with an intro (no total_duration) followed by a step *)
(* whose slot is wider than its clip, followed by a third step.            *)
C1_Witness ==
    /\ pc = "done"
    /\ Len(artifact.sequence) >= 3
    /\ artifact.sequence[1].type = "intro"
    /\ {"total_duration", "duration"} \subseteq DOMAIN artifact.sequence[2]
    /\ artifact.sequence[2].total_duration > artifact.sequence[2].duration

(* C2 -- The total_duration written to the timeline artifact is the sum of *)
(* the slot widths of its steps, the first step starts at 0, and after     *)
(* every add_to_sequence the running total is the end of the last step's   *)
(* slot, which is the start_time the next step receives.                   *)
C2_TotalIsSum ==
    /\ total_duration = SumSlots(audio_sequence)
    /\ audio_sequence # <<>> =>
          /\ audio_sequence[1].start_time = 0
          /\ LET last == audio_sequence[Len(audio_sequence)]
             IN  total_duration = last.start_time + SlotWidth(last)
    /\ artifact # <<>> =>
          /\ artifact.total_duration = SumSlots(artifact.sequence)
          /\ artifact.sequence # <<>> => artifact.sequence[1].start_time = 0

C2_Witness ==
    /\ pc = "done"
    /\ Len(artifact.sequence) >= 2
    /\ artifact.total_duration > SlotWidth(artifact.sequence[1])
    /\ \E i \in 1..Len(artifact.sequence) : artifact.sequence[i].type = "combined_task"

(* C3 -- Every narration-task step with repeat count n >= 1 has            *)
(* total_duration = task_start_buffer + clip length * n                    *)
(*                  + pause_between_plays * (n - 1) + thinking_time.       *)
C3_RepeatInflation ==
    \A i \in 1..Len(audio_sequence) :
        LET step == audio_sequence[i]
        IN  step.type = "combined_task" =>
                step.total_duration =
                    step.task_start_buffer + step.text_duration * step.play_count
                    + step.pause_between * (step.play_count - 1) + step.thinking_time

(* C4 -- Determinism: every run of generate_all_audio on the same          *)
(* production JSON, timing configuration and clip lengths returns the same *)
(* sequence (start_time, total_duration and all other fields of every      *)
(* step) and the same total, also when the run reuses a generator instance *)
(* that has run before.                                                    *)
C4_Determinism ==
    \A i, j \in 1..Len(returned) :
        /\ returned[i].sequence = returned[j].sequence
        /\ returned[i].total_duration = returned[j].total_duration

C4_Witness ==
    /\ Len(returned) >= 2
    /\ Len(returned[2].sequence) >= 2
    /\ returned[2].total_duration > 0

(* C5, as claimed -- a finished run's timeline is lead-in, instructions,   *)
(* then transition, narration task, answer reveal for each of the n        *)
(* narration units, then a closing transition and a lead-out.              *)
C5_FixedShape ==
    pc = "done" => Types(artifact.sequence) = ShapeTypes(NumUnits)

(* C5, amended -- a finished run's timeline has one step per section of    *)
(* the production JSON whose type the builder knows, in document order and *)
(* of that section's type; it has the lead-in ... lead-out form exactly    *)
(* when those sections are listed in that form.                            *)
C5_FollowsSections ==
    pc = "done" =>
        /\ Types(artifact.sequence) = SelectSeq(InputTypes, KnownType)
        /\ Types(artifact.sequence) = ShapeTypes(NumUnits)
              <=> SelectSeq(InputTypes, KnownType) = ShapeTypes(NumUnits)

C5_Witness ==
    /\ pc = "done"
    /\ NumUnits = MaxUnits
    /\ Types(artifact.sequence) = ShapeTypes(MaxUnits)

(* C10 -- Within one run, any two narration-task steps with the same       *)
(* speaker are synthesized with the same voice.                            *)
C10_OneVoicePerSpeaker ==
    \A i, j \in 1..Len(audio_sequence) :
        ( /\ audio_sequence[i].type = "combined_task"
          /\ audio_sequence[j].type = "combined_task"
          /\ audio_sequence[i].speaker = audio_sequence[j].speaker )
        => audio_sequence[i].voice = audio_sequence[j].voice

-----------------------------------------------------------------------------
(* Helpers of the claims about the assembler *)

Sequence == artifact.sequence

(* The segments of step i without the padding in front of it, in order *)
Content(i) == SelectSeq(master_audio, LAMBDA seg : seg.step = i /\ seg.part # "pad")

NonEmpty(segs) == SelectSeq(segs, LAMBDA seg : seg.len > 0)

Layout(segs) == [k \in 1..Len(segs) |-> <<segs[k].part, segs[k].len>>]

RECURSIVE Plays(_, _, _)
(* The clip n times with the pause between consecutive plays *)
Plays(n, clip, pause) ==
    IF n = 1 THEN << <<"clip", clip>> >>
    ELSE Plays(n - 1, clip, pause) \o << <<"pause", pause>>, <<"clip", clip>> >>

ExpectedTask(step, clip) ==
    << <<"buffer", step.task_start_buffer>> >>
    \o Plays(step.play_count, clip, step.pause_between)
    \o << <<"thinking", step.thinking_time>> >>

NonZero(layout) == SelectSeq(layout, LAMBDA e : e[2] > 0)

ClipCount(i) == Len(SelectSeq(master_audio, LAMBDA seg : seg.step = i /\ seg.kind = "clip"))

(* The clip the builder wrote for a step is on disk with the length the    *)
(* timeline records for it.                                                *)
ClipMatches(step) ==
    /\ step.file \in DOMAIN disk
    /\ disk[step.file] = IF step.type = "combined_task" THEN step.text_duration ELSE step.duration


(* C6 -- For every step the assembler has processed, the track length at   *)
(* the moment it starts appending the step (for a narration task: its      *)
(* task-start buffer) equals the step's start_time.                        *)
C6_StepBeginsAtStart ==
    \A i \in 1..Len(asm_log) : asm_log[i].begin = Sequence[i].start_time

(* C7 -- When every clip file has the length the timeline records for it   *)
(* and the assembler has processed all steps, the master track's length    *)
(* is the timeline's total_duration within 50 ms.                          *)
C7_AssembledLength ==
    ( /\ sync_pc = "assembled"
      /\ \A i \in 1..Len(Sequence) : ClipMatches(Sequence[i])
      /\ \A i \in 1..Len(asm_log) : asm_log[i].loaded \/ audio_file_of(Sequence[i]) \notin DOMAIN disk )
    => Abs(TrackLen(master_audio) - artifact.total_duration) <= 50

(* C8 -- For every step whose clip the assembler has loaded: a narration   *)
(* task with repeat count n gets the task-start buffer, then the clip n    *)
(* times with the pause between consecutive plays, then the thinking time, *)
(* in this order (silences of length 0 aside); any other step gets its     *)
(* clip exactly once.                                                      *)
C8_TaskLayout ==
    \A i \in 1..Len(asm_log) :
        asm_log[i].loaded =>
            IF Sequence[i].type = "combined_task"
            THEN NonZero(Layout(Content(i)))
                    = NonZero(ExpectedTask(Sequence[i], disk[audio_file_of(Sequence[i])]))
            ELSE ClipCount(i) = 1

(* C9 -- The target duration handed to the encode is the length of the     *)
(* assembled master track.                                                 *)
C9_EncodeTarget ==
    encode_call # <<>> => encode_call.target_duration = TrackLen(master_audio)

(* An encode whose target differs from the timeline's total and from the   *)
(* video's measured duration by more than the 2 s the code warns about.    *)
C9_Witness ==
    /\ encode_call # <<>>
    /\ encode_call.target_duration # artifact.total_duration
    /\ encode_call.video_duration.ok
    /\ Abs(encode_call.video_duration.duration - encode_call.target_duration) > 2000
    /\ Abs(artifact.total_duration - encode_call.target_duration) > 500

-----------------------------------------------------------------------------
(* Speakers of gender g in the voice table, and those of them with the     *)
(* k-th voice of the gender's pool                                         *)
SpeakersOf(va, g) == {s \in DOMAIN va : va[s][3] = g}

Uses(va, g, k) == Cardinality({s \in SpeakersOf(va, g) : va[s][1] = gender_voice_pools[g][k]})

(* C11 -- Voice diversity: a speaker entered into the voice table as the   *)
(* i-th speaker of its gender (i = 1, 2, 3, ...) receives the voice at     *)
(* index (i - 1) mod 2 of the gender's two-voice pool, so the first two    *)
(* speakers receive the two distinct pool voices and later ones cycle; the *)
(* numbers of speakers using the two voices never differ by more than one. *)
C11_RoundRobin ==
    /\ [][ \A s \in (DOMAIN voice_assignments') \ (DOMAIN voice_assignments) :
              LET g == voice_assignments'[s][3]
                  i == Cardinality(SpeakersOf(voice_assignments, g)) + 1
              IN  voice_assignments'[s][1] = gender_voice_pools[g][((i - 1) % 2) + 1] ]_vars
    /\ [](\A g \in DOMAIN gender_voice_pools :
              Abs(Uses(voice_assignments, g, 1) - Uses(voice_assignments, g, 2)) <= 1)

(* Three speakers of one gender, the third with the first pool voice again *)
C11_Witness ==
    /\ Cardinality(SpeakersOf(voice_assignments, "male")) >= 3
    /\ Uses(voice_assignments, "male", 1) = 2
    /\ Uses(voice_assignments, "male", 2) = 1

-----------------------------------------------------------------------------
(* Helpers of the claims about generate_speech *)

Attempts == [k \in 1..Len(polly_calls) |-> <<polly_calls[k].voice_name, polly_calls[k].engine>>]

AllFailed == \A k \in 1..Len(polly_calls) : ~polly_calls[k].ok

(* Requested pair, same voice at the lower tier, the fallback voice at the *)
(* lower tier, the last resort                                             *)
Ladder(voice_name, engine) ==
    << <<voice_name, engine>>, <<voice_name, "standard">>,
       <<get_fallback_voice(voice_name), "standard">>, <<"Marlene", "standard">> >>

(* a is b with some of its elements left out *)
InOrder(a, b) ==
    \E f \in [1..Len(a) -> 1..Len(b)] :
        /\ \A k \in 1..Len(a) : b[f[k]] = a[k]
        /\ \A j, k \in 1..Len(a) : j < k => f[j] < f[k]

(* C12 -- When the TTS service fails on every call, generate_speech makes  *)
(* the initial attempt and exactly three fallback attempts, four calls in  *)
(* all, and then raises.                                                   *)
C12_ThreeFallbacks ==
    (speech_pc = "raised" /\ AllFailed) => Len(polly_calls) = 4

(* C13 -- The pairs one generate_speech call attempts follow the ladder of *)
(* the requested pair in its order (a rung that does not apply to the      *)
(* request may be left out), no earlier rung comes after a later one, and  *)
(* no pair is attempted twice.                                             *)
C13_OrderedLadder ==
    speech_request # <<>> =>
        /\ InOrder(Attempts, Ladder(speech_request[1], speech_request[2]))
        /\ \A j, k \in 1..Len(Attempts) : j # k => Attempts[j] # Attempts[k]

(* C14 -- generate_speech terminates: at most 4 activations are on the     *)
(* stack and at most 6 TTS calls are made, whatever the requested pair and *)
(* the pattern of successes and failures, and a call that has started ends *)
(* by returning audio or by raising.                                       *)
C14_Terminates ==
    /\ [](Len(speech_stack) <= 4 /\ Len(polly_calls) <= 6)
    /\ [](speech_pc = "returned" => speech_result # <<>>)
    /\ (speech_pc = "running") ~> (speech_pc \in {"returned", "raised"})

(* The longest run: six failed calls, the deepest at four activations *)
C14_Witness ==
    /\ speech_pc = "raised"
    /\ Len(polly_calls) = 6
    /\ \E k \in 1..Len(polly_calls) : polly_calls[k].depth = 4

(* C15 -- generate_speech returns the audio of the first attempt that      *)
(* succeeds and calls TTS no more after it: the first attempt is made with *)
(* the requested voice and engine; a success is the last call made, and    *)
(* its audio is what is returned.                                          *)
C15_FirstSuccess ==
    /\ polly_calls # <<>> => Attempts[1] = speech_request
    /\ \A k \in 1..(Len(polly_calls) - 1) : ~polly_calls[k].ok
    /\ (polly_calls # <<>> /\ polly_calls[Len(polly_calls)].ok) =>
          /\ speech_pc = "returned"
          /\ speech_result.attempt = Len(polly_calls)
    /\ speech_pc = "returned" => polly_calls[Len(polly_calls)].ok

(* The first attempt failed, the second succeeded and its audio came back  *)
C15_Witness ==
    /\ speech_pc = "returned"
    /\ Len(polly_calls) = 2
    /\ speech_result.attempt = 2
    /\ speech_result.clip = 4000

-----------------------------------------------------------------------------
(* C16 -- A section whose synthesis fails at every fallback tier aborts    *)
(* the run: the step that fails adds no step to the sequence, leaves the   *)
(* running total and the audio directory as they were and writes no        *)
(* timeline artifact; the failed run has returned nothing and the process  *)
(* exits with a non-zero code.                                             *)
C16_AbortOnSynthesisFailure ==
    /\ [][ pc' = "failed" =>
              /\ audio_sequence' = audio_sequence
              /\ total_duration' = total_duration
              /\ disk' = disk
              /\ artifact' = artifact
              /\ returned' = returned ]_vars
    /\ [](pc = "failed" => (main_exit_code(pc) # 0 /\ Len(returned) < runs))

(* The second run fails on its second section; the artifact on disk is     *)
(* the one the first run wrote.                                            *)
C16_Witness ==
    /\ pc = "failed"
    /\ runs = 2
    /\ Len(returned) = 1
    /\ Len(audio_sequence) = 1
    /\ artifact = returned[1]

-----------------------------------------------------------------------------
(* Helpers of the claims about the playback driver *)

Session == SessionState(drv_pc)

StepCalls == SelectSeq(renderer_log, LAMBDA ev : ev.op = "call" /\ ev.kind # "completion")

C18_RenderErrorAborts ==
    \A k \in 1..Len(renderer_log) :
        (renderer_log[k].op = "error" /\ renderer_log[k].kind # "completion") =>
            /\ \A j \in (k + 1)..Len(renderer_log) : renderer_log[j].op # "call"
            /\ drv_result # "output_path"

(* C19 -- Renderer calls never overlap and follow the timeline: in the log *)
(* every call is followed by its own return before the next call is made,  *)
(* the j-th step call is the call of step j, and a session that completed  *)
(* has called every step exactly once.                                     *)
C19_SequentialCalls ==
    /\ \A k \in 1..Len(renderer_log) :
          IF k % 2 = 1 THEN renderer_log[k].op = "call"
          ELSE /\ renderer_log[k].op \in {"return", "error"}
               /\ renderer_log[k].step = renderer_log[k - 1].step
               /\ renderer_log[k].kind = renderer_log[k - 1].kind
    /\ \A j \in 1..Len(StepCalls) :
          /\ StepCalls[j].step = j
          /\ StepCalls[j].kind = artifact.sequence[j].type
    /\ (drv_pc = "completed" /\ ~drv_failed) => Len(StepCalls) = Len(artifact.sequence)
    /\ drv_pc = "rendering" <=>
          (renderer_log # <<>> /\ renderer_log[Len(renderer_log)].op = "call"
           /\ renderer_log[Len(renderer_log)].kind # "completion")

(* Two steps applied, the call of the first slow, the second after it *)
C19_Witness ==
    /\ Len(StepCalls) = 2
    /\ renderer_log[2].at >= renderer_log[1].at + 200
    /\ renderer_log[3].at >= renderer_log[2].at
    /\ drv_pc = "completed"

(* C20 -- The renderer call of a step is never made while the elapsed time *)
(* is less than the step's start_time.                                     *)
C20_NeverEarly ==
    \A j \in 1..Len(StepCalls) : StepCalls[j].at >= artifact.sequence[StepCalls[j].step].start_time

(* C29 -- Every timing measurement of a step is taken after the renderer   *)
(* call of that step has returned: the log holds the return (or error) of  *)
(* the step's call, at a time not after the measurement's actual time.     *)
C29_MeasuredAfterReturn ==
    \A j \in 1..Len(timing_measurements) :
        \E k \in 1..Len(renderer_log) :
            /\ renderer_log[k].op \in {"return", "error"}
            /\ renderer_log[k].kind # "completion"
            /\ renderer_log[k].step = timing_measurements[j].step
            /\ renderer_log[k].at <= timing_measurements[j].actual

CompletionCalls == SelectSeq(renderer_log, LAMBDA ev : ev.op = "call" /\ ev.kind = "completion")

StepEnds == SelectSeq(renderer_log, LAMBDA ev : ev.op # "call" /\ ev.kind # "completion")

(* C30 -- The completion call is made at most once, and exactly once in a  *)
(* session that ended without failure; when it is made the renderer call   *)
(* of every step of the timeline has been made and has ended, and the      *)
(* elapsed time is at least total_duration - baseline lag - cumulative     *)
(* drift.                                                                  *)
C30_CompletionOnce ==
    /\ Len(CompletionCalls) <= 1
    /\ (drv_pc = "completed" /\ ~drv_failed) => Len(CompletionCalls) = 1
    /\ \A k \in 1..Len(renderer_log) :
          (renderer_log[k].op = "call" /\ renderer_log[k].kind = "completion") =>
              /\ Len(StepCalls) = Len(artifact.sequence)
              /\ Len(StepEnds) = Len(artifact.sequence)
              /\ \A j \in 1..Len(renderer_log) : renderer_log[j].kind # "completion" => j < k
              /\ renderer_log[k].at >=
                     artifact.total_duration - browser_lag_baseline - cumulative_drift

(* A session of two steps that ended without failure; the final wait had   *)
(* to wait for its target                                                  *)
C30_Witness ==
    /\ drv_pc = "completed"
    /\ ~drv_failed
    /\ Len(artifact.sequence) = 2
    /\ Len(CompletionCalls) = 1
    /\ CompletionCalls[1].at > StepEnds[2].at + SettleDelay
    /\ cumulative_drift # 0

(* C21 -- When every renderer call takes 200 ms, cumulative_drift has come *)
(* to within 50 ms of 200 ms by the third step and stays there, and every  *)
(* step after the third is invoked within the sync tolerance of its        *)
(* start_time.                                                             *)
C21_DriftConverges ==
    /\ \A j \in 1..Len(timing_measurements) :
          j >= 3 => Abs(timing_measurements[j].cumulative_drift - 200) <= 50
    /\ \A j \in 1..Len(StepCalls) :
          j > 3 => Abs(StepCalls[j].at - artifact.sequence[j].start_time) <= SyncTolerance

(* C22 -- A recording whose measured duration is off by more than the      *)
(* tolerance and that was re-timed has the timeline's total_duration,      *)
(* within the tolerance.                                                   *)
C22_CorrectedDuration ==
    recording.correction = "applied" =>
        Abs(recording.duration - artifact.total_duration) <= RecordingTolerance

-----------------------------------------------------------------------------
(* Helpers of the claims about the pipelines *)

(* The entries of the log for a stage *)
Entries(stage) == { k \in 1..Len(pipe_log) : pipe_log[k].stage = stage }

(* The run went on after entry k of the log *)
WentOn(k) == k < Len(pipe_log) \/ pipe_pc \notin {"returned", pipe_log[k].stage}

(* C23 -- A timing reconciliation issue does not end a run of the          *)
(* synchronized pipeline: a recorded video that is off, or could not be    *)
(* measured, or whose correction failed, is returned by                    *)
(* record_calibrated_video, its stage reports success and the run goes on; *)
(* the run goes on after a failed timing validation; and an assembled      *)
(* track whose length is not the timeline's total_duration leaves          *)
(* sync_audio_video returning its output whenever the encode went well,    *)
(* its stage reporting success and the run going on.                       *)
C23_ReconciliationNeverAborts ==
    /\ (recording.exists /\ ~recording.is_valid) =>
          /\ drv_result = "output_path"
          /\ \A k \in Entries("video") : pipe_log[k].success /\ WentOn(k)
    /\ \A k \in Entries("validate") : WentOn(k)
    /\ (sync_pc = "done" /\ encode_call # <<>> /\ encode_call.success
          /\ actual_duration # artifact.total_duration) =>
          /\ sync_result = "output_path"
          /\ \A k \in Entries("sync") : pipe_log[k].success /\ WentOn(k)

(* A run in which the video was off and its correction failed, the timing  *)
(* validation failed, the assembled track was more than half a second off, *)
(* and the final conversion was reached                                    *)
C23_Witness ==
    /\ pipe_pc = "mp4"
    /\ recording.exists /\ recording.measured /\ recording.correction = "failed"
    /\ \E k \in Entries("validate") : ~pipe_log[k].success
    /\ Abs(actual_duration - artifact.total_duration) > 500
    /\ \E k \in Entries("sync") : pipe_log[k].success

(* Every stage of the synchronized pipeline went well *)
AllStagesSucceeded ==
    /\ \A stage \in ScriptStages \cup {"mp4"} :
          \E k \in Entries(stage) : pipe_log[k].success /\ pipe_log[k].output
    /\ \A k \in 1..Len(pipe_log) :
          pipe_log[k].stage \in ScriptStages \cup {"mp4"} => pipe_log[k].success

(* C24 -- When every stage of the synchronized pipeline has succeeded and  *)
(* the final MP4 exists, run_synchronized_pipeline returns True and the    *)
(* process exits with code 0.                                              *)
C24_SuccessExitsZero ==
    (pipe_kind = "synchronized" /\ pipe_pc = "returned" /\ AllStagesSucceeded) =>
        /\ pipe_result = "True"
        /\ pipeline_exit_code(pipe_result) = 0

(* C25 -- In every pipeline a stage that failed is the last stage that was *)
(* run: the pipeline has returned False, the process exits non-zero, and   *)
(* every stage before it succeeded and left its file.                      *)
C25_FailFast ==
    \A k \in 1..Len(pipe_log) :
        ( /\ pipe_log[k].stage \in ScriptStages \cup {"mp4"}
          /\ ~(pipe_log[k].success /\ (pipe_log[k].output
                                         \/ ~checks_output(pipe_kind, pipe_log[k].stage))) ) =>
            /\ k = Len(pipe_log)
            /\ pipe_pc = "returned"
            /\ pipe_result = "False"
            /\ pipeline_exit_code(pipe_result) # 0

(* The complete pipeline after its conversion and audio stages went well   *)
(* and its video stage failed                                              *)
C25_Witness ==
    /\ pipe_kind = "complete"
    /\ Len(pipe_log) = 3
    /\ pipe_log[1].success /\ pipe_log[2].success
    /\ pipe_log[3].stage = "video" /\ ~pipe_log[3].success
    /\ pipe_result = "False"

(* C26 -- When a run of generate_all_audio has failed with the KeyError of *)
(* a section that lacks a field, the run has made no generate_speech call. *)
C26_FailsBeforeSynthesis ==
    (pc = "failed" /\ gen_error = "KeyError") => tts_calls = 0

-----------------------------------------------------------------------------
(* The sections of a written production JSON that belong to a question or  *)
(* to a text                                                               *)
QuestionSections ==
    SelectSeq(production_file.sections, LAMBDA section : "question_reference" \in DOMAIN section)

TextSections ==
    SelectSeq(production_file.sections, LAMBDA section : "content_reference" \in DOMAIN section)

(* C27: in a written production JSON the question sections come in the     *)
(* order of the questions, every question section but the last pauses 30   *)
(* seconds after it and the last one 10 seconds, and every text section is *)
(* played twice with 3 seconds between the two plays.                      *)
C27_SectionTiming ==
    conv_status = "written" =>
        /\ \A j \in 1..Len(QuestionSections) :
              /\ QuestionSections[j].question_reference = j
              /\ QuestionSections[j].id = "question_" \o ToString(j)
              /\ QuestionSections[j].audio.pause_after =
                    (IF j < Len(QuestionSections) THEN 30000 ELSE 10000)
        /\ \A j \in 1..Len(TextSections) :
              /\ TextSections[j].audio.play_count = 2
              /\ TextSections[j].audio.pause_between = 3000

(* A converter has written five question and five text sections *)
C27_Witness ==
    /\ conv_pc = "done"
    /\ conv_status = "written"
    /\ Len(QuestionSections) = TextCount
    /\ Len(TextSections) = TextCount

(* The questions of the loaded user JSON whose answer key is none of their *)
(* options                                                                 *)
KeylessQuestions ==
    { i \in 1..Len(user_data.questions) :
        user_data.questions[i].correct_answer \notin DOMAIN user_data.questions[i].options }

(* C28: a written production JSON has for every question of the input a   *)
(* solution whose answer is the question's correct_answer and whose        *)
(* description is the option text under that key; when the answer key of a *)
(* question is none of its options the conversion fails and writes no      *)
(* production JSON.                                                        *)
C28_SolutionsFollowAnswers ==
    conv_pc = "done" /\ user_data # <<>> =>
        /\ conv_status = "written" =>
              /\ Len(production_file.solutions) = Len(user_data.questions)
              /\ \A i \in 1..Len(user_data.questions) :
                    /\ production_file.solutions[i].answer =
                          user_data.questions[i].correct_answer
                    /\ user_data.questions[i].correct_answer \in
                          DOMAIN user_data.questions[i].options
                    /\ production_file.solutions[i].description =
                          user_data.questions[i].options[user_data.questions[i].correct_answer]
        /\ KeylessQuestions # {} =>
              /\ conv_status \in {"exit1", "error"}
              /\ production_file = <<>>

(* Five texts and five questions, only the last answer key is no option:   *)
(* the conversion ended with the KeyError and wrote nothing                *)
C28_Witness ==
    /\ conv_pc = "done"
    /\ user_data # <<>>
    /\ Len(user_data.texts) = TextCount
    /\ KeylessQuestions = {TextCount}
    /\ Len(user_data.questions) = TextCount
    /\ conv_status = "error"
    /\ production_file = <<>>

-----------------------------------------------------------------------------
(* The positions of record_calibrated_video inside its try block           *)
InSession ==
    drv_pc \in {"calibrating", "calibrated", "injecting", "waiting", "rendering", "completing"}

(* record_calibrated_video is left: it returned or the cancellation went   *)
(* through it, and no temporary file is there                              *)
Terminal ==
    /\ drv_pc = "completed"
    /\ drv_result \in {"output_path", "None", "cancelled"}
    /\ temp_files = {}

(* C31: a playback session, once started, reaches a terminal state: every  *)
(* step wait and the final wait end after finitely many sleeps for every   *)
(* baseline lag and drift, and a page.evaluate call that raises or a       *)
(* cancellation ends in a terminal state too, with the temporary files     *)
(* removed.                                                                *)
C31_SessionTerminates == InSession ~> Terminal

(* A session with a baseline lag slept in a step wait and in the final     *)
(* wait, and ended with its result and no temporary file                   *)
C31_Witness ==
    /\ Terminal
    /\ drv_result = "output_path"
    /\ browser_lag_baseline > 0
    /\ Len(timing_measurements) = 2
    /\ timing_measurements[2].actual > 0
    /\ clock >= artifact.total_duration

-----------------------------------------------------------------------------
(* The clip length a step records: text_duration for a combined_task,      *)
(* duration for every other step                                           *)
RecordedClipLength(step) ==
    IF step.type = "combined_task" THEN step.text_duration ELSE step.duration

(* C32: the duration the builder records in a step is the length of the    *)
(* clip file it has just written for that step, also when the file cannot  *)
(* be probed; stated for the step entered last, whose file is the one on   *)
(* disk.                                                                   *)
C32_RecordsProbedLength ==
    audio_sequence # <<>> =>
        LET step == audio_sequence[Len(audio_sequence)]
        IN  RecordedClipLength(step) = disk[step.file]

-----------------------------------------------------------------------------
(* The synthesize_speech call that gave the audio generate_speech returned *)
ProducingAttempt == polly_calls[speech_result.attempt]

(* C33: the voice and engine entered in a step are the voice and engine of *)
(* the synthesize_speech call that produced the step's audio, also when    *)
(* that call was a fallback attempt.                                       *)
C33_RecordsProducingVoice ==
    (speech_pc = "returned" /\ audio_sequence # <<>>) =>
        /\ audio_sequence[1].voice = ProducingAttempt.voice_name
        /\ audio_sequence[1].engine = ProducingAttempt.engine

-----------------------------------------------------------------------------
(* The sources of the gender of the speaker of a step of SpecGender, and   *)
(* what each of them says ("" when it says nothing)                        *)
SpeakerInfoOf(step) ==
    GenderContent[step.task_number].speakers[GenderContent[step.task_number].speaker]

ByGenderField(step) ==
    IF "gender" \in DOMAIN SpeakerInfoOf(step) THEN Lower(SpeakerInfoOf(step).gender) ELSE ""

ByVoiceName(step) ==
    LET voice_name == Get(SpeakerInfoOf(step), "voice_name", "")
    IN  IF voice_name \in {"Marlene", "Vicki"} THEN "female"
        ELSE IF voice_name \in {"Hans", "Daniel"} THEN "male"
        ELSE ""

ByIndicator(step) ==
    LET item == GenderContent[step.task_number]
        matched == Words(item.speaker) \cup Words(Get(SpeakerInfoOf(step), "role", ""))
                     \cup Words(Get(item, "context", ""))
    IN  IF matched \cap female_indicators # {} THEN "female"
        ELSE IF matched \cap male_indicators # {} THEN "male"
        ELSE ""

ByRolePattern(step) ==
    LET matched == Words(Get(SpeakerInfoOf(step), "role", ""))
    IN  IF matched \cap {"in", "frau"} # {} THEN "female"
        ELSE IF matched \cap {"herr", "mann"} # {} THEN "male"
        ELSE ""

(* The first source of the list that says something decides *)
FirstOf(sources) ==
    LET saying == {i \in 1..Len(sources) : sources[i] # ""}
    IN  IF saying = {} THEN "female"
        ELSE sources[CHOOSE i \in saying : \A j \in saying : i <= j]

(* C34 as stated: the gender field decides, else a known voice name, else  *)
(* the indicator words found in speaker, role and context (female before   *)
(* male), else the gender is female.                                       *)
C34_FourSources ==
    \A k \in 1..Len(audio_sequence) :
        audio_sequence[k].detected_gender =
            FirstOf(<<ByGenderField(audio_sequence[k]), ByVoiceName(audio_sequence[k]),
                      ByIndicator(audio_sequence[k])>>)

(* C34, amended: the gender field decides, else a known voice name, else   *)
(* the indicator words found in speaker, role and context (female before   *)
(* male), else the patterns in/frau and herr/mann found in the role        *)
(* (female before male), else the gender is female; a later source never   *)
(* overrides an earlier one.                                               *)
C34_FiveSources ==
    \A k \in 1..Len(audio_sequence) :
        audio_sequence[k].detected_gender =
            FirstOf(<<ByGenderField(audio_sequence[k]), ByVoiceName(audio_sequence[k]),
                      ByIndicator(audio_sequence[k]), ByRolePattern(audio_sequence[k])>>)

(* A step whose speaker has the gender field Male, the voice name Vicki    *)
(* and the role Kundin: the field decided                                  *)
C34_Witness ==
    /\ audio_sequence # <<>>
    /\ ByGenderField(audio_sequence[1]) = "male"
    /\ ByVoiceName(audio_sequence[1]) = "female"
    /\ ByIndicator(audio_sequence[1]) = "female"
    /\ audio_sequence[1].detected_gender = "male"

-----------------------------------------------------------------------------
(* C35: for every transition step the assembler has processed, the clip    *)
(* file it resolved is the file the builder wrote for the step, and that   *)
(* file is in the audio directory, so the step is not left without its     *)
(* clip.                                                                   *)
C35_TransitionClipResolved ==
    \A k \in 1..asm_i :
        artifact.sequence[k].type = "transition" =>
            /\ audio_file_of(artifact.sequence[k]) = artifact.sequence[k].file
            /\ audio_file_of(artifact.sequence[k]) \in DOMAIN disk

-----------------------------------------------------------------------------
(* C36: the builder, run on a production JSON the converter wrote, does    *)
(* not fail on a section, and the timeline it writes has one step per      *)
(* section of that JSON.                                                   *)
C36_BuilderAcceptsConverterOutput ==
    conv_status = "written" =>
        /\ pc # "failed"
        /\ pc = "done" => Len(artifact.sequence) = Len(production_file.sections)

-----------------------------------------------------------------------------
(* C37: while the builder runs, the voice assignment of every unit with a  *)
(* speaker entry does not raise, gives a voice of the pool of the gender   *)
(* it names, and the voice table then holds it for the speaker.            *)
C37_VoiceAssignmentTotal ==
    pc = "running" =>
        \A r \in 1..Len(VoiceContent) :
            LET content_item == VoiceContent[r]
                speaker == content_item.speaker
            IN  ( /\ "speakers" \in DOMAIN content_item
                  /\ speaker \in DOMAIN content_item.speakers )
                => LET smart == get_smart_voice_for_speaker(voice_assignments,
                                    content_item.speakers[speaker], content_item)
                   IN  /\ ~smart.raised
                       /\ speaker \in DOMAIN smart.voice_assignments
                       /\ smart.voice_assignments[speaker] = smart.assignment
                       /\ \E k \in 1..2 :
                              smart.assignment[1] = gender_voice_pools[smart.assignment[3]][k]

-----------------------------------------------------------------------------
(* C38: in the assembler, after any number of steps, current_position is   *)
(* the length of the master track built so far.                            *)
C38_CursorIsTrackLength == current_position = TrackLen(master_audio)

(* Two steps done: the first one's clip was not loaded, the second one is  *)
(* padded up to its start and is a task played twice                       *)
C38_Witness ==
    /\ sync_pc = "assembling"
    /\ asm_i >= 2
    /\ \E k \in 1..Len(asm_log) : ~asm_log[k].loaded
    /\ \E k \in 1..Len(master_audio) : master_audio[k].part = "pad"
    /\ \E k \in 1..Len(master_audio) : master_audio[k].part = "thinking"
    /\ current_position > 0

-----------------------------------------------------------------------------
(* C39: in the complete pipeline, for every input file name, the           *)
(* production JSON is looked for where the converter writes it and the     *)
(* video where the video generator writes it, so that a convert or video   *)
(* stage whose script succeeded is never logged without its file.          *)
C39_StageFilesFound ==
    pipe_kind = "complete" =>
        \A k \in 1..Len(pipe_log) :
            /\ (pipe_log[k].stage = "convert" /\ pipe_log[k].success)
               => /\ production_json(pipe_input) = create_safe_output_path(pipe_input)
                  /\ pipe_log[k].output
            /\ (pipe_log[k].stage = "video" /\ pipe_log[k].success)
               => /\ video_file(pipe_input) =
                        record_video_output_path(production_json(pipe_input))
                  /\ pipe_log[k].output

====
